---- MODULE Spec2Model ----
(***************************************************************************)
(* Model of the multi-criteria scoring and re-ranking engine of the        *)
(* dengue outbreak-response repository:                                    *)
(*   src/scikit-criteria-demo.py    thresholds, compliance matrix,         *)
(*                                  normalisation, MCDA matrix, urgency    *)
(*                                  multipliers                            *)
(*   src/escenarios_prescriptivos.py  ejecutar_escenario (the scoring run) *)
(*                                                                         *)
(* Numbers.  Python floats are modelled as exact rationals                 *)
(* [num |-> n, den |-> d] in lowest terms with d > 0.  Table entries that  *)
(* the source writes with one decimal (0.2, 1.8, -0.4) are stored in       *)
(* tenths and converted with Tenths.                                       *)
(*                                                                         *)
(* Strings.  Strategy names and context keywords are sequences of Unicode  *)
(* code points, so that slicing, lower-casing and substring search are     *)
(* computed as Python computes them.                                       *)
(*                                                                         *)
(* Optional values.  Python's None is the empty sequence; a present value  *)
(* v is <<v>>.  A dict is a function whose DOMAIN is its key set, or, when *)
(* the iteration order of its keys matters, a sequence of [k, v] records.  *)
(***************************************************************************)
EXTENDS Integers, Sequences, FiniteSets, TLC

VARIABLES
  pc,                   \* position of the run
  strategies_config,    \* ordered dict: sequence of [name, rules]
  indicators,           \* sorted list of indicator names
  indicator_values,     \* dict indicator -> current reading
  umbrales,             \* per indicator, what parse_threshold returned for its text
  indicator_thresholds, \* dict indicator -> [op, threshold]
  escenario_id,         \* id of the scenario being run
  escenario,            \* the scenario definition [nivel_alerta, factores_estrategia]
  strategy_factors,     \* dict strategy name -> 11 applicability factors
  nivel_riesgo,         \* severity level passed to the urgency multiplier
  contexto_escenario,   \* optional situational-context id (None = <<>>)
  indicator_matrix,     \* compliance matrix, one row per strategy
  factor_scores_raw,    \* raw factor scores returned by build_mcda_matrix
  mcda_matrix,          \* rows <<normalised compliance, normalised factor score>>
  score,                \* result.e_.score of the weighted sum model
  rank_,                \* result.rank_ of the weighted sum model
  scores_ajustados,     \* output of aplicar_multiplicador_urgencia
  ranks_ajustados,      \* final ranks recomputed by ejecutar_escenario
  indicadores_criticos, \* count of indicators in the alarming region (None until counted)
  indicadores_normales, \* count of indicators outside it (None until counted)
  arg,                  \* arguments of a direct call of one function
  ret                   \* value returned by that call

vars == <<pc, strategies_config, indicators, indicator_values, umbrales,
          indicator_thresholds, escenario_id, escenario, strategy_factors, nivel_riesgo, contexto_escenario, indicator_matrix,
          factor_scores_raw, mcda_matrix, score, rank_, scores_ajustados, ranks_ajustados, indicadores_criticos,
         indicadores_normales, arg, ret>>

----------------------------------------------------------------------------
(* Bounds of the model *)

\* Largest number of strategies in one run.
MaxStrategies == 3
\* Indicator readings and thresholds range over 0..MaxReading.
MaxReading == 2
\* Raw (pre-normalisation) indicator weights range over 0..MaxWeight.
MaxWeight == 2
\* Significant bits of the rounded arithmetic (a Python float has 53).
Precision == 5
\* Longest threshold text enumerated character by character.
MaxTexto == 4

\* Calls of ejecutar_escenario made one after the other by a caller's loop.
MaxLlamadas == 2

----------------------------------------------------------------------------
(* Exact arithmetic standing for Python/numpy float arithmetic *)

None == <<>>
Some(v) == <<v>>

Abs(x) == IF x < 0 THEN -x ELSE x

RECURSIVE GCD(_, _)
GCD(a, b) == IF b = 0 THEN a ELSE GCD(b, a % b)

\* The rational n/d in lowest terms with a positive denominator.
Rat(n, d) ==
  LET g == GCD(Abs(n), Abs(d))
      s == IF d < 0 THEN -1 ELSE 1
  IN  [num |-> (s * n) \div g, den |-> (s * d) \div g]

Zero == Rat(0, 1)
One == Rat(1, 1)
Tenths(t) == Rat(t, 10)

RAdd(a, b) == Rat(a.num * b.den + b.num * a.den, a.den * b.den)
RSub(a, b) == Rat(a.num * b.den - b.num * a.den, a.den * b.den)
RMul(a, b) == Rat(a.num * b.num, a.den * b.den)
RDiv(a, b) == Rat(a.num * b.den, a.den * b.num)
RLt(a, b) == a.num * b.den < b.num * a.den
RLe(a, b) == a.num * b.den <= b.num * a.den

RECURSIVE RSum(_)
RSum(s) == IF s = <<>> THEN Zero ELSE RAdd(Head(s), RSum(Tail(s)))

\* values.max() and values.min() of a non-empty vector.
RECURSIVE RMax(_)
RMax(s) ==
  IF Len(s) = 1 THEN s[1]
  ELSE LET m == RMax(Tail(s)) IN IF RLt(m, s[1]) THEN s[1] ELSE m

RECURSIVE RMin(_)
RMin(s) ==
  IF Len(s) = 1 THEN s[1]
  ELSE LET m == RMin(Tail(s)) IN IF RLt(s[1], m) THEN s[1] ELSE m

----------------------------------------------------------------------------
(* Python string operations on code-point sequences *)

\* str.lower() on one code point (Basic Latin and Latin-1 letters).
LowerChar(c) ==
  IF (c >= 65 /\ c <= 90) \/ (c >= 192 /\ c <= 222 /\ c # 215) THEN c + 32 ELSE c

Lower(s) == [i \in 1..Len(s) |-> LowerChar(s[i])]

IsSpace(c) == c \in {9, 10, 11, 12, 13, 28, 29, 30, 31, 32, 133, 160}

RECURSIVE LStrip(_)
LStrip(s) == IF s # <<>> /\ IsSpace(Head(s)) THEN LStrip(Tail(s)) ELSE s

RECURSIVE RStrip(_)
RStrip(s) ==
  IF s # <<>> /\ IsSpace(s[Len(s)]) THEN RStrip(SubSeq(s, 1, Len(s) - 1)) ELSE s

\* str.strip()
Strip(s) == RStrip(LStrip(s))

\* s[:n]
Prefix(s, n) == SubSeq(s, 1, IF Len(s) < n THEN Len(s) ELSE n)

\* needle in hay
Contains(hay, needle) ==
  \E i \in 0..(Len(hay) - Len(needle)) : SubSeq(hay, i + 1, i + Len(needle)) = needle

\* dict.get(key) of a dict modelled as a function: None when the key is absent.
Get(d, key) == IF key \in DOMAIN d THEN Some(d[key]) ELSE None

\* Lookup in an ordered dict (sequence of [k, v]): index of the key, 0 if absent.
IndexOfKey(od, key) ==
  IF \E i \in 1..Len(od) : od[i].k = key
  THEN CHOOSE i \in 1..Len(od) : od[i].k = key
  ELSE 0

----------------------------------------------------------------------------
(* Module-level tables of src/scikit-criteria-demo.py *)

\* ESTRATEGIA_TIPO_RESPUESTA: the response-type taxonomy, in definition order.
\* Each key is the strategy name as its sequence of Unicode code points.
ESTRATEGIA_TIPO_RESPUESTA ==
  << \* Aplicar adulticidas quimicos como malation o deltametrina para el cont
    [k |-> <<65,112,108,105,99,97,114,32,97,100,117,108,116,105,99,105,100,97,115,32,113,117,237,109,
      105,99,111,115,32,99,111,109,111,32,109,97,108,97,116,105,243,110,32,111,32,100,101,108,
      116,97,109,101,116,114,105,110,97,32,112,97,114,97,32,101,108,32,99,111,110,116,114,111,
      108,32,114,225,112,105,100,111,32,100,101,108,32,118,101,99,116,111,114,32,97,100,117,
      108,116,111,32,101,110,32,101,115,112,97,99,105,111,115,32,97,98,105,101,114,116,111,
      115,46>>,
     v |-> "inmediata"],
     \* Implementar rapidamente protocolos de triage y fortalecer la capacitac
    [k |-> <<73,109,112,108,101,109,101,110,116,97,114,32,114,225,112,105,100,97,109,101,110,116,101,
      32,112,114,111,116,111,99,111,108,111,115,32,100,101,32,116,114,105,97,103,101,32,121,
      32,102,111,114,116,97,108,101,99,101,114,32,108,97,32,99,97,112,97,99,105,116,97,99,105,
      243,110,32,100,101,108,32,112,101,114,115,111,110,97,108,32,100,101,32,115,97,108,117,
      100,32,112,97,114,97,32,101,108,32,109,97,110,101,106,111,32,99,108,237,110,105,99,111,
      32,100,101,108,32,100,101,110,103,117,101,46>>,
     v |-> "inmediata"],
     \* Aplicar larvicidas quimicos en criaderos especificos de gran volumen d
    [k |-> <<65,112,108,105,99,97,114,32,108,97,114,118,105,99,105,100,97,115,32,113,117,237,109,105,
      99,111,115,32,101,110,32,99,114,105,97,100,101,114,111,115,32,101,115,112,101,99,237,
      102,105,99,111,115,32,100,101,32,103,114,97,110,32,118,111,108,117,109,101,110,32,100,
      111,110,100,101,32,110,111,32,101,115,32,118,105,97,98,108,101,32,101,108,32,99,111,110,
      116,114,111,108,32,102,237,115,105,99,111,44,32,103,97,114,97,110,116,105,122,97,110,
      100,111,32,115,101,103,117,114,105,100,97,100,32,97,109,98,105,101,110,116,97,108,46>>,
     v |-> "activa"],
     \* Aplicar metodos biologicos para el control larvario del vector, incluy
    [k |-> <<65,112,108,105,99,97,114,32,109,233,116,111,100,111,115,32,98,105,111,108,243,103,105,
      99,111,115,32,112,97,114,97,32,101,108,32,99,111,110,116,114,111,108,32,108,97,114,118,
      97,114,105,111,32,100,101,108,32,118,101,99,116,111,114,44,32,105,110,99,108,117,121,
      101,110,100,111,32,101,108,32,117,115,111,32,100,101,32,112,101,99,101,115,32,108,97,
      114,118,237,118,111,114,111,115,32,121,32,66,97,99,105,108,108,117,115,32,116,104,117,
      114,105,110,103,105,101,110,115,105,115,46>>,
     v |-> "activa"],
     \* Implementar acciones de control fisico en el entorno domiciliario y co
    [k |-> <<73,109,112,108,101,109,101,110,116,97,114,32,97,99,99,105,111,110,101,115,32,100,101,32,
      99,111,110,116,114,111,108,32,102,237,115,105,99,111,32,101,110,32,101,108,32,101,110,
      116,111,114,110,111,32,100,111,109,105,99,105,108,105,97,114,105,111,32,121,32,99,111,
      109,117,110,105,116,97,114,105,111,32,112,97,114,97,32,114,101,100,117,99,105,114,32,
      111,32,101,108,105,109,105,110,97,114,32,99,114,105,97,100,101,114,111,115,32,100,101,
      108,32,118,101,99,116,111,114,46>>,
     v |-> "activa"],
     \* Realizar identificacion focalizada de criaderos mediante inspeccion di
    [k |-> <<82,101,97,108,105,122,97,114,32,105,100,101,110,116,105,102,105,99,97,99,105,243,110,32,
      102,111,99,97,108,105,122,97,100,97,32,100,101,32,99,114,105,97,100,101,114,111,115,32,
      109,101,100,105,97,110,116,101,32,105,110,115,112,101,99,99,105,243,110,32,100,105,114,
      101,99,116,97,32,121,32,104,101,114,114,97,109,105,101,110,116,97,115,32,100,101,32,103,
      101,111,114,114,101,102,101,114,101,110,99,105,97,99,105,243,110,46>>,
     v |-> "activa"],
     \* Fomentar el uso de medidas de proteccion individual, como repelente y 
    [k |-> <<70,111,109,101,110,116,97,114,32,101,108,32,117,115,111,32,100,101,32,109,101,100,105,
      100,97,115,32,100,101,32,112,114,111,116,101,99,99,105,243,110,32,105,110,100,105,118,
      105,100,117,97,108,44,32,99,111,109,111,32,114,101,112,101,108,101,110,116,101,32,121,
      32,98,97,114,114,101,114,97,115,32,102,237,115,105,99,97,115,44,32,101,115,112,101,99,
      105,97,108,109,101,110,116,101,32,101,110,32,103,114,117,112,111,115,32,100,101,32,114,
      105,101,115,103,111,46>>,
     v |-> "activa"],
     \* Promover practicas preventivas sostenibles mediante campanas educativa
    [k |-> <<80,114,111,109,111,118,101,114,32,112,114,225,99,116,105,99,97,115,32,112,114,101,118,
      101,110,116,105,118,97,115,32,115,111,115,116,101,110,105,98,108,101,115,32,109,101,100,
      105,97,110,116,101,32,99,97,109,112,97,241,97,115,32,101,100,117,99,97,116,105,118,97,
      115,44,32,99,97,109,98,105,111,32,100,101,32,99,111,109,112,111,114,116,97,109,105,101,
      110,116,111,32,115,111,99,105,97,108,32,121,32,118,105,103,105,108,97,110,99,105,97,32,
      112,97,114,116,105,99,105,112,97,116,105,118,97,46>>,
     v |-> "preventiva"],
     \* Difundir mensajes preventivos inmediatos a traves de canales como SMS,
    [k |-> <<68,105,102,117,110,100,105,114,32,109,101,110,115,97,106,101,115,32,112,114,101,118,101,
      110,116,105,118,111,115,32,105,110,109,101,100,105,97,116,111,115,32,97,32,116,114,97,
      118,233,115,32,100,101,32,99,97,110,97,108,101,115,32,99,111,109,111,32,83,77,83,44,32,
      114,101,100,101,115,32,115,111,99,105,97,108,101,115,32,121,32,97,108,116,97,118,111,99,
      101,115,32,101,110,32,122,111,110,97,115,32,100,101,32,98,114,111,116,101,46>>,
     v |-> "preventiva"],
     \* Fortalecer la percepcion de riesgo del dengue y promover practicas pre
    [k |-> <<70,111,114,116,97,108,101,99,101,114,32,108,97,32,112,101,114,99,101,112,99,105,243,110,
      32,100,101,32,114,105,101,115,103,111,32,100,101,108,32,100,101,110,103,117,101,32,121,
      32,112,114,111,109,111,118,101,114,32,112,114,225,99,116,105,99,97,115,32,112,114,101,
      118,101,110,116,105,118,97,115,32,99,111,109,117,110,105,116,97,114,105,97,115,32,109,
      101,100,105,97,110,116,101,32,105,110,102,111,114,109,97,99,105,243,110,44,32,101,100,
      117,99,97,99,105,243,110,32,121,32,99,111,109,117,110,105,99,97,99,105,243,110,46>>,
     v |-> "preventiva"],
     \* Fortalecer la prevencion individual frente al dengue mediante el uso d
    [k |-> <<70,111,114,116,97,108,101,99,101,114,32,108,97,32,112,114,101,118,101,110,99,105,243,
      110,32,105,110,100,105,118,105,100,117,97,108,32,102,114,101,110,116,101,32,97,108,32,
      100,101,110,103,117,101,32,109,101,100,105,97,110,116,101,32,101,108,32,117,115,111,32,
      100,101,32,118,97,99,117,110,97,115,32,97,112,114,111,98,97,100,97,115,32,101,110,32,
      112,111,98,108,97,99,105,243,110,32,111,98,106,101,116,105,118,111,32,115,101,103,250,
      110,32,108,105,110,101,97,109,105,101,110,116,111,115,32,110,97,99,105,111,110,97,108,
      101,115,46>>,
     v |-> "preventiva"],
     \* Articular esfuerzos con los sectores de agua, saneamiento, educacion y
    [k |-> <<65,114,116,105,99,117,108,97,114,32,101,115,102,117,101,114,122,111,115,32,99,111,110,
      32,108,111,115,32,115,101,99,116,111,114,101,115,32,100,101,32,97,103,117,97,44,32,115,
      97,110,101,97,109,105,101,110,116,111,44,32,101,100,117,99,97,99,105,243,110,32,121,32,
      115,101,114,118,105,99,105,111,115,32,112,250,98,108,105,99,111,115,32,112,97,114,97,32,
      97,99,99,105,111,110,101,115,32,112,114,101,118,101,110,116,105,118,97,115,32,115,111,
      115,116,101,110,105,98,108,101,115,46>>,
     v |-> "coordinacion"],
     \* Fortalecer la articulacion institucional para asegurar la continuidad 
    [k |-> <<70,111,114,116,97,108,101,99,101,114,32,108,97,32,97,114,116,105,99,117,108,97,99,105,
      243,110,32,105,110,115,116,105,116,117,99,105,111,110,97,108,32,112,97,114,97,32,97,115,
      101,103,117,114,97,114,32,108,97,32,99,111,110,116,105,110,117,105,100,97,100,32,100,
      101,32,108,97,115,32,97,99,99,105,111,110,101,115,32,100,101,32,99,111,110,116,114,111,
      108,32,121,32,102,97,99,105,108,105,116,97,114,32,108,97,32,101,110,116,114,97,100,97,
      32,97,32,112,114,101,100,105,111,115,46>>,
     v |-> "coordinacion"],
     \* Fortalecer la sostenibilidad del programa de control del dengue median
    [k |-> <<70,111,114,116,97,108,101,99,101,114,32,108,97,32,115,111,115,116,101,110,105,98,105,
      108,105,100,97,100,32,100,101,108,32,112,114,111,103,114,97,109,97,32,100,101,32,99,111,
      110,116,114,111,108,32,100,101,108,32,100,101,110,103,117,101,32,109,101,100,105,97,110,
      116,101,32,105,110,118,101,114,115,105,243,110,32,99,111,110,116,105,110,117,97,44,32,
      97,108,105,97,110,122,97,115,32,121,32,103,101,115,116,105,243,110,32,100,101,32,114,
      101,99,117,114,115,111,115,46>>,
     v |-> "coordinacion"],
     \* Utilizar datos meteorologicos y modelos de alerta temprana para antici
    [k |-> <<85,116,105,108,105,122,97,114,32,100,97,116,111,115,32,109,101,116,101,111,114,111,108,
      243,103,105,99,111,115,32,121,32,109,111,100,101,108,111,115,32,100,101,32,97,108,101,
      114,116,97,32,116,101,109,112,114,97,110,97,32,112,97,114,97,32,97,110,116,105,99,105,
      112,97,114,32,99,111,110,100,105,99,105,111,110,101,115,32,102,97,118,111,114,97,98,108,
      101,115,32,97,108,32,118,101,99,116,111,114,46>>,
     v |-> "monitoreo"],
     \* Utilizar tecnologias innovadoras para el monitoreo y control focalizad
    [k |-> <<85,116,105,108,105,122,97,114,32,116,101,99,110,111,108,111,103,237,97,115,32,105,110,
      110,111,118,97,100,111,114,97,115,32,112,97,114,97,32,101,108,32,109,111,110,105,116,
      111,114,101,111,32,121,32,99,111,110,116,114,111,108,32,102,111,99,97,108,105,122,97,
      100,111,32,100,101,108,32,118,101,99,116,111,114,44,32,99,111,109,111,32,100,114,111,
      110,101,115,44,32,115,101,110,115,111,114,101,115,32,114,101,109,111,116,111,115,32,111,
      32,116,114,97,109,112,97,115,32,105,110,116,101,108,105,103,101,110,116,101,115,46>>,
     v |-> "monitoreo"],
     \* Monitorear condiciones climaticas y gestionar escorrentias o acumulaci
    [k |-> <<77,111,110,105,116,111,114,101,97,114,32,99,111,110,100,105,99,105,111,110,101,115,32,
      99,108,105,109,225,116,105,99,97,115,32,121,32,103,101,115,116,105,111,110,97,114,32,
      101,115,99,111,114,114,101,110,116,237,97,115,32,111,32,97,99,117,109,117,108,97,99,105,
      111,110,101,115,32,100,101,32,97,103,117,97,32,113,117,101,32,102,97,118,111,114,101,
      122,99,97,110,32,99,114,105,97,100,101,114,111,115,46>>,
     v |-> "monitoreo"],
     \* Implementar estrategias de control vectorial basadas en biotecnologia,
    [k |-> <<73,109,112,108,101,109,101,110,116,97,114,32,101,115,116,114,97,116,101,103,105,97,115,
      32,100,101,32,99,111,110,116,114,111,108,32,118,101,99,116,111,114,105,97,108,32,98,97,
      115,97,100,97,115,32,101,110,32,98,105,111,116,101,99,110,111,108,111,103,237,97,44,32,
      99,111,109,111,32,108,97,32,108,105,98,101,114,97,99,105,243,110,32,100,101,32,109,111,
      115,113,117,105,116,111,115,32,87,111,108,98,97,99,104,105,97,32,111,32,116,233,99,110,
      105,99,97,32,100,101,108,32,105,110,115,101,99,116,111,32,101,115,116,233,114,105,108,
      46>>,
     v |-> "monitoreo"],
     \* Implementar programas de diagnostico oportuno, tratamiento adecuado y 
    [k |-> <<73,109,112,108,101,109,101,110,116,97,114,32,112,114,111,103,114,97,109,97,115,32,100,
      101,32,100,105,97,103,110,243,115,116,105,99,111,32,111,112,111,114,116,117,110,111,44,
      32,116,114,97,116,97,109,105,101,110,116,111,32,97,100,101,99,117,97,100,111,32,121,32,
      97,99,111,109,112,97,241,97,109,105,101,110,116,111,32,97,32,112,97,99,105,101,110,116,
      101,115,32,99,111,110,32,100,101,110,103,117,101,46>>,
     v |-> "monitoreo"]
  >>

\* A severity table that gives every response type the same weight 1.0 at every level.
MULTIPLICADORES_URGENCIA_Planos ==
  [nivel \in {"bajo_riesgo", "riesgo_moderado", "alto_riesgo", "emergencia"} |->
     [inmediata |-> 10, activa |-> 10, preventiva |-> 10, coordinacion |-> 10,
      monitoreo |-> 10]]

\* MULTIPLICADORES_URGENCIA: severity level -> response type -> multiplier, in tenths.
MULTIPLICADORES_URGENCIA ==
  [ bajo_riesgo |-> [inmediata |-> 2, activa |-> 5, preventiva |-> 18, coordinacion |-> 15, monitoreo |-> 17],
    riesgo_moderado |-> [inmediata |-> 4, activa |-> 16, preventiva |-> 9, coordinacion |-> 12, monitoreo |-> 13],
    alto_riesgo |-> [inmediata |-> 18, activa |-> 13, preventiva |-> 4, coordinacion |-> 10, monitoreo |-> 6],
    emergencia |-> [inmediata |-> 25, activa |-> 9, preventiva |-> 2, coordinacion |-> 7, monitoreo |-> 3] ]

\* CONTEXTO_ESCENARIO: context id -> ordered keyword table (keyword code points,
\* multiplier in tenths), in definition order.
CONTEXTO_ESCENARIO ==
  [ lluvias_intensas |-> <<
      \* Monitorear condiciones climaticas y gestionar escorrentias: 1.8
      [k |-> <<77,111,110,105,116,111,114,101,97,114,32,99,111,110,100,105,99,105,111,110,101,115,32,
        99,108,105,109,225,116,105,99,97,115,32,121,32,103,101,115,116,105,111,110,97,114,32,
        101,115,99,111,114,114,101,110,116,237,97,115>>,
       v |-> 18],
      \* Realizar identificacion focalizada de criaderos: 1.5
      [k |-> <<82,101,97,108,105,122,97,114,32,105,100,101,110,116,105,102,105,99,97,99,105,243,110,32,
        102,111,99,97,108,105,122,97,100,97,32,100,101,32,99,114,105,97,100,101,114,111,115>>,
       v |-> 15],
      \* Implementar acciones de control fisico: 1.4
      [k |-> <<73,109,112,108,101,109,101,110,116,97,114,32,97,99,99,105,111,110,101,115,32,100,101,32,
        99,111,110,116,114,111,108,32,102,237,115,105,99,111>>,
       v |-> 14],
      \* Utilizar datos meteorologicos: 1.6
      [k |-> <<85,116,105,108,105,122,97,114,32,100,97,116,111,115,32,109,101,116,101,111,114,111,108,
        243,103,105,99,111,115>>,
       v |-> 16],
      \* Aplicar larvicidas quimicos: 1.3
      [k |-> <<65,112,108,105,99,97,114,32,108,97,114,118,105,99,105,100,97,115,32,113,117,237,109,105,
        99,111,115>>,
       v |-> 13]
    >>,
    intermitencia_agua |-> <<
      \* Implementar acciones de control fisico: 1.7
      [k |-> <<73,109,112,108,101,109,101,110,116,97,114,32,97,99,99,105,111,110,101,115,32,100,101,32,
        99,111,110,116,114,111,108,32,102,237,115,105,99,111>>,
       v |-> 17],
      \* Realizar identificacion focalizada de criaderos: 1.6
      [k |-> <<82,101,97,108,105,122,97,114,32,105,100,101,110,116,105,102,105,99,97,99,105,243,110,32,
        102,111,99,97,108,105,122,97,100,97,32,100,101,32,99,114,105,97,100,101,114,111,115>>,
       v |-> 16],
      \* Promover practicas preventivas: 1.4
      [k |-> <<80,114,111,109,111,118,101,114,32,112,114,225,99,116,105,99,97,115,32,112,114,101,118,
        101,110,116,105,118,97,115>>,
       v |-> 14],
      \* Fortalecer la percepcion de riesgo: 1.3
      [k |-> <<70,111,114,116,97,108,101,99,101,114,32,108,97,32,112,101,114,99,101,112,99,105,243,110,
        32,100,101,32,114,105,101,115,103,111>>,
       v |-> 13],
      \* Aplicar larvicidas quimicos: 1.5
      [k |-> <<65,112,108,105,99,97,114,32,108,97,114,118,105,99,105,100,97,115,32,113,117,237,109,105,
        99,111,115>>,
       v |-> 15],
      \* Articular esfuerzos con los sectores de agua: 1.6
      [k |-> <<65,114,116,105,99,117,108,97,114,32,101,115,102,117,101,114,122,111,115,32,99,111,110,
        32,108,111,115,32,115,101,99,116,111,114,101,115,32,100,101,32,97,103,117,97>>,
       v |-> 16]
    >>,
    movilidad_eventos |-> <<
      \* Implementar programas de diagnostico oportuno: 1.7
      [k |-> <<73,109,112,108,101,109,101,110,116,97,114,32,112,114,111,103,114,97,109,97,115,32,100,
        101,32,100,105,97,103,110,243,115,116,105,99,111,32,111,112,111,114,116,117,110,111>>,
       v |-> 17],
      \* Implementar rapidamente protocolos de triage: 1.5
      [k |-> <<73,109,112,108,101,109,101,110,116,97,114,32,114,225,112,105,100,97,109,101,110,116,101,
        32,112,114,111,116,111,99,111,108,111,115,32,100,101,32,116,114,105,97,103,101>>,
       v |-> 15],
      \* Difundir mensajes preventivos inmediatos: 1.6
      [k |-> <<68,105,102,117,110,100,105,114,32,109,101,110,115,97,106,101,115,32,112,114,101,118,101,
        110,116,105,118,111,115,32,105,110,109,101,100,105,97,116,111,115>>,
       v |-> 16],
      \* Fomentar el uso de medidas de proteccion individual: 1.5
      [k |-> <<70,111,109,101,110,116,97,114,32,101,108,32,117,115,111,32,100,101,32,109,101,100,105,
        100,97,115,32,100,101,32,112,114,111,116,101,99,99,105,243,110,32,105,110,100,105,118,
        105,100,117,97,108>>,
       v |-> 15],
      \* Utilizar tecnologias innovadoras para el monitoreo: 1.4
      [k |-> <<85,116,105,108,105,122,97,114,32,116,101,99,110,111,108,111,103,237,97,115,32,105,110,
        110,111,118,97,100,111,114,97,115,32,112,97,114,97,32,101,108,32,109,111,110,105,116,
        111,114,101,111>>,
       v |-> 14]
    >>,
    saturacion_operativa |-> <<
      \* Fortalecer la articulacion institucional: 1.7
      [k |-> <<70,111,114,116,97,108,101,99,101,114,32,108,97,32,97,114,116,105,99,117,108,97,99,105,
        243,110,32,105,110,115,116,105,116,117,99,105,111,110,97,108>>,
       v |-> 17],
      \* Fortalecer la sostenibilidad del programa: 1.5
      [k |-> <<70,111,114,116,97,108,101,99,101,114,32,108,97,32,115,111,115,116,101,110,105,98,105,
        108,105,100,97,100,32,100,101,108,32,112,114,111,103,114,97,109,97>>,
       v |-> 15],
      \* Aplicar adulticidas quimicos: 1.4
      [k |-> <<65,112,108,105,99,97,114,32,97,100,117,108,116,105,99,105,100,97,115,32,113,117,237,109,
        105,99,111,115>>,
       v |-> 14],
      \* Implementar rapidamente protocolos de triage: 1.6
      [k |-> <<73,109,112,108,101,109,101,110,116,97,114,32,114,225,112,105,100,97,109,101,110,116,101,
        32,112,114,111,116,111,99,111,108,111,115,32,100,101,32,116,114,105,97,103,101>>,
       v |-> 16],
      \* Articular esfuerzos con los sectores: 1.5
      [k |-> <<65,114,116,105,99,117,108,97,114,32,101,115,102,117,101,114,122,111,115,32,99,111,110,
        32,108,111,115,32,115,101,99,116,111,114,101,115>>,
       v |-> 15]
    >>,
    agua_intermitente |-> <<
      \* Implementar acciones de control fisico: 6.0
      [k |-> <<73,109,112,108,101,109,101,110,116,97,114,32,97,99,99,105,111,110,101,115,32,100,101,32,
        99,111,110,116,114,111,108,32,102,237,115,105,99,111>>,
       v |-> 60],
      \* Aplicar larvicidas quimicos: 5.0
      [k |-> <<65,112,108,105,99,97,114,32,108,97,114,118,105,99,105,100,97,115,32,113,117,237,109,105,
        99,111,115>>,
       v |-> 50],
      \* Articular esfuerzos con los sectores de agua: 4.5
      [k |-> <<65,114,116,105,99,117,108,97,114,32,101,115,102,117,101,114,122,111,115,32,99,111,110,
        32,108,111,115,32,115,101,99,116,111,114,101,115,32,100,101,32,97,103,117,97>>,
       v |-> 45],
      \* Promover practicas preventivas: 4.0
      [k |-> <<80,114,111,109,111,118,101,114,32,112,114,225,99,116,105,99,97,115,32,112,114,101,118,
        101,110,116,105,118,97,115>>,
       v |-> 40],
      \* metodos biologicos: 0.3
      [k |-> <<109,233,116,111,100,111,115,32,98,105,111,108,243,103,105,99,111,115>>,
       v |-> 3],
      \* adulticidas: 0.4
      [k |-> <<97,100,117,108,116,105,99,105,100,97,115>>,
       v |-> 4]
    >>,
    alta_densidad |-> <<
      \* Aplicar adulticidas quimicos: 6.0
      [k |-> <<65,112,108,105,99,97,114,32,97,100,117,108,116,105,99,105,100,97,115,32,113,117,237,109,
        105,99,111,115>>,
       v |-> 60],
      \* Fomentar el uso de medidas de proteccion individual: 5.5
      [k |-> <<70,111,109,101,110,116,97,114,32,101,108,32,117,115,111,32,100,101,32,109,101,100,105,
        100,97,115,32,100,101,32,112,114,111,116,101,99,99,105,243,110,32,105,110,100,105,118,
        105,100,117,97,108>>,
       v |-> 55],
      \* Implementar rapidamente protocolos de triage: 5.0
      [k |-> <<73,109,112,108,101,109,101,110,116,97,114,32,114,225,112,105,100,97,109,101,110,116,101,
        32,112,114,111,116,111,99,111,108,111,115,32,100,101,32,116,114,105,97,103,101>>,
       v |-> 50],
      \* Implementar programas de diagnostico oportuno: 4.5
      [k |-> <<73,109,112,108,101,109,101,110,116,97,114,32,112,114,111,103,114,97,109,97,115,32,100,
        101,32,100,105,97,103,110,243,115,116,105,99,111,32,111,112,111,114,116,117,110,111>>,
       v |-> 45],
      \* metodos biologicos: 0.2
      [k |-> <<109,233,116,111,100,111,115,32,98,105,111,108,243,103,105,99,111,115>>,
       v |-> 2],
      \* control fisico: 0.4
      [k |-> <<99,111,110,116,114,111,108,32,102,237,115,105,99,111>>,
       v |-> 4]
    >>,
    construcciones |-> <<
      \* Monitorear condiciones climaticas y gestionar escorrentias: 6.0
      [k |-> <<77,111,110,105,116,111,114,101,97,114,32,99,111,110,100,105,99,105,111,110,101,115,32,
        99,108,105,109,225,116,105,99,97,115,32,121,32,103,101,115,116,105,111,110,97,114,32,
        101,115,99,111,114,114,101,110,116,237,97,115>>,
       v |-> 60],
      \* Utilizar tecnologias innovadoras: 5.5
      [k |-> <<85,116,105,108,105,122,97,114,32,116,101,99,110,111,108,111,103,237,97,115,32,105,110,
        110,111,118,97,100,111,114,97,115>>,
       v |-> 55],
      \* Articular esfuerzos con los sectores: 5.0
      [k |-> <<65,114,116,105,99,117,108,97,114,32,101,115,102,117,101,114,122,111,115,32,99,111,110,
        32,108,111,115,32,115,101,99,116,111,114,101,115>>,
       v |-> 50],
      \* Realizar identificacion focalizada de criaderos: 4.5
      [k |-> <<82,101,97,108,105,122,97,114,32,105,100,101,110,116,105,102,105,99,97,99,105,243,110,32,
        102,111,99,97,108,105,122,97,100,97,32,100,101,32,99,114,105,97,100,101,114,111,115>>,
       v |-> 45],
      \* metodos biologicos: 0.3
      [k |-> <<109,233,116,111,100,111,115,32,98,105,111,108,243,103,105,99,111,115>>,
       v |-> 3],
      \* adulticidas: 0.5
      [k |-> <<97,100,117,108,116,105,99,105,100,97,115>>,
       v |-> 5]
    >>,
    dificil_acceso |-> <<
      \* Utilizar tecnologias innovadoras: 6.0
      [k |-> <<85,116,105,108,105,122,97,114,32,116,101,99,110,111,108,111,103,237,97,115,32,105,110,
        110,111,118,97,100,111,114,97,115>>,
       v |-> 60],
      \* Aplicar metodos biologicos: 5.5
      [k |-> <<65,112,108,105,99,97,114,32,109,233,116,111,100,111,115,32,98,105,111,108,243,103,105,
        99,111,115>>,
       v |-> 55],
      \* Fortalecer la articulacion institucional: 5.0
      [k |-> <<70,111,114,116,97,108,101,99,101,114,32,108,97,32,97,114,116,105,99,117,108,97,99,105,
        243,110,32,105,110,115,116,105,116,117,99,105,111,110,97,108>>,
       v |-> 50],
      \* Promover practicas preventivas: 4.5
      [k |-> <<80,114,111,109,111,118,101,114,32,112,114,225,99,116,105,99,97,115,32,112,114,101,118,
        101,110,116,105,118,97,115>>,
       v |-> 45],
      \* adulticidas: 0.3
      [k |-> <<97,100,117,108,116,105,99,105,100,97,115>>,
       v |-> 3],
      \* larvicidas quimicos: 0.4
      [k |-> <<108,97,114,118,105,99,105,100,97,115,32,113,117,237,109,105,99,111,115>>,
       v |-> 4]
    >>,
    rechazo_comunitario |-> <<
      \* Fortalecer la percepcion de riesgo: 6.0
      [k |-> <<70,111,114,116,97,108,101,99,101,114,32,108,97,32,112,101,114,99,101,112,99,105,243,110,
        32,100,101,32,114,105,101,115,103,111>>,
       v |-> 60],
      \* Difundir mensajes preventivos: 5.5
      [k |-> <<68,105,102,117,110,100,105,114,32,109,101,110,115,97,106,101,115,32,112,114,101,118,101,
        110,116,105,118,111,115>>,
       v |-> 55],
      \* Promover practicas preventivas: 5.0
      [k |-> <<80,114,111,109,111,118,101,114,32,112,114,225,99,116,105,99,97,115,32,112,114,101,118,
        101,110,116,105,118,97,115>>,
       v |-> 50],
      \* Fortalecer la articulacion institucional: 4.5
      [k |-> <<70,111,114,116,97,108,101,99,101,114,32,108,97,32,97,114,116,105,99,117,108,97,99,105,
        243,110,32,105,110,115,116,105,116,117,99,105,111,110,97,108>>,
       v |-> 45],
      \* metodos biologicos: 0.3
      [k |-> <<109,233,116,111,100,111,115,32,98,105,111,108,243,103,105,99,111,115>>,
       v |-> 3],
      \* adulticidas: 0.3
      [k |-> <<97,100,117,108,116,105,99,105,100,97,115>>,
       v |-> 3],
      \* larvicidas: 0.4
      [k |-> <<108,97,114,118,105,99,105,100,97,115>>,
       v |-> 4]
    >>,
    historicamente_problematica |-> <<
      \* Realizar identificacion focalizada de criaderos: 6.0
      [k |-> <<82,101,97,108,105,122,97,114,32,105,100,101,110,116,105,102,105,99,97,99,105,243,110,32,
        102,111,99,97,108,105,122,97,100,97,32,100,101,32,99,114,105,97,100,101,114,111,115>>,
       v |-> 60],
      \* Utilizar tecnologias innovadoras: 5.5
      [k |-> <<85,116,105,108,105,122,97,114,32,116,101,99,110,111,108,111,103,237,97,115,32,105,110,
        110,111,118,97,100,111,114,97,115>>,
       v |-> 55],
      \* Utilizar datos meteorologicos: 5.0
      [k |-> <<85,116,105,108,105,122,97,114,32,100,97,116,111,115,32,109,101,116,101,111,114,111,108,
        243,103,105,99,111,115>>,
       v |-> 50],
      \* metodos biologicos: 0.4
      [k |-> <<109,233,116,111,100,111,115,32,98,105,111,108,243,103,105,99,111,115>>,
       v |-> 4],
      \* adulticidas: 0.3
      [k |-> <<97,100,117,108,116,105,99,105,100,97,115>>,
       v |-> 3]
    >>,
    bien_organizada |-> <<
      \* Promover practicas preventivas: 6.0
      [k |-> <<80,114,111,109,111,118,101,114,32,112,114,225,99,116,105,99,97,115,32,112,114,101,118,
        101,110,116,105,118,97,115>>,
       v |-> 60],
      \* Fortalecer la percepcion de riesgo: 5.5
      [k |-> <<70,111,114,116,97,108,101,99,101,114,32,108,97,32,112,101,114,99,101,112,99,105,243,110,
        32,100,101,32,114,105,101,115,103,111>>,
       v |-> 55],
      \* Difundir mensajes preventivos: 5.0
      [k |-> <<68,105,102,117,110,100,105,114,32,109,101,110,115,97,106,101,115,32,112,114,101,118,101,
        110,116,105,118,111,115>>,
       v |-> 50],
      \* metodos biologicos: 0.4
      [k |-> <<109,233,116,111,100,111,115,32,98,105,111,108,243,103,105,99,111,115>>,
       v |-> 4],
      \* adulticidas: 0.2
      [k |-> <<97,100,117,108,116,105,99,105,100,97,115>>,
       v |-> 2],
      \* larvicidas: 0.3
      [k |-> <<108,97,114,118,105,99,105,100,97,115>>,
       v |-> 3]
    >>,
    buena_infraestructura |-> <<
      \* Utilizar tecnologias innovadoras: 6.0
      [k |-> <<85,116,105,108,105,122,97,114,32,116,101,99,110,111,108,111,103,237,97,115,32,105,110,
        110,111,118,97,100,111,114,97,115>>,
       v |-> 60],
      \* Utilizar datos meteorologicos: 5.5
      [k |-> <<85,116,105,108,105,122,97,114,32,100,97,116,111,115,32,109,101,116,101,111,114,111,108,
        243,103,105,99,111,115>>,
       v |-> 55],
      \* Monitorear condiciones climaticas: 5.0
      [k |-> <<77,111,110,105,116,111,114,101,97,114,32,99,111,110,100,105,99,105,111,110,101,115,32,
        99,108,105,109,225,116,105,99,97,115>>,
       v |-> 50],
      \* metodos biologicos: 0.4
      [k |-> <<109,233,116,111,100,111,115,32,98,105,111,108,243,103,105,99,111,115>>,
       v |-> 4],
      \* adulticidas: 0.2
      [k |-> <<97,100,117,108,116,105,99,105,100,97,115>>,
       v |-> 2],
      \* larvicidas: 0.3
      [k |-> <<108,97,114,118,105,99,105,100,97,115>>,
       v |-> 3]
    >>,
    cobertura_agua_variable |-> <<
      \* Promover practicas preventivas: 6.0
      [k |-> <<80,114,111,109,111,118,101,114,32,112,114,225,99,116,105,99,97,115,32,112,114,101,118,
        101,110,116,105,118,97,115>>,
       v |-> 60],
      \* Implementar acciones de control fisico: 5.5
      [k |-> <<73,109,112,108,101,109,101,110,116,97,114,32,97,99,99,105,111,110,101,115,32,100,101,32,
        99,111,110,116,114,111,108,32,102,237,115,105,99,111>>,
       v |-> 55],
      \* Articular esfuerzos con los sectores de agua: 5.0
      [k |-> <<65,114,116,105,99,117,108,97,114,32,101,115,102,117,101,114,122,111,115,32,99,111,110,
        32,108,111,115,32,115,101,99,116,111,114,101,115,32,100,101,32,97,103,117,97>>,
       v |-> 50],
      \* metodos biologicos: 0.4
      [k |-> <<109,233,116,111,100,111,115,32,98,105,111,108,243,103,105,99,111,115>>,
       v |-> 4],
      \* adulticidas: 0.2
      [k |-> <<97,100,117,108,116,105,99,105,100,97,115>>,
       v |-> 2]
    >>,
    transicion |-> <<
      \* Fortalecer la sostenibilidad del programa: 6.0
      [k |-> <<70,111,114,116,97,108,101,99,101,114,32,108,97,32,115,111,115,116,101,110,105,98,105,
        108,105,100,97,100,32,100,101,108,32,112,114,111,103,114,97,109,97>>,
       v |-> 60],
      \* Promover practicas preventivas: 5.5
      [k |-> <<80,114,111,109,111,118,101,114,32,112,114,225,99,116,105,99,97,115,32,112,114,101,118,
        101,110,116,105,118,97,115>>,
       v |-> 55],
      \* Realizar identificacion focalizada de criaderos: 5.0
      [k |-> <<82,101,97,108,105,122,97,114,32,105,100,101,110,116,105,102,105,99,97,99,105,243,110,32,
        102,111,99,97,108,105,122,97,100,97,32,100,101,32,99,114,105,97,100,101,114,111,115>>,
       v |-> 50],
      \* metodos biologicos: 0.4
      [k |-> <<109,233,116,111,100,111,115,32,98,105,111,108,243,103,105,99,111,115>>,
       v |-> 4],
      \* adulticidas: 0.2
      [k |-> <<97,100,117,108,116,105,99,105,100,97,115>>,
       v |-> 2],
      \* larvicidas: 0.3
      [k |-> <<108,97,114,118,105,99,105,100,97,115>>,
       v |-> 3]
    >> ]

\* FACTOR_NAMES: the 11 applicability factors, in order.
FACTOR_NAMES ==
  << "disponibilidad_recursos",
     "costo_operativo",
     "tiempo_cobertura",
     "dependencias_externas",
     "aceptacion_comunidad",
     "acceso_predios",
     "percepcion_riesgo",
     "resistencia_vector",
     "otros_vectores",
     "efectividad_esperada",
     "magnitud_brote" >>

\* FACTOR_VALUES_GENERAL: global context values, in tenths.
FACTOR_VALUES_GENERAL ==
  [percepcion_riesgo |-> 8, resistencia_vector |-> 5, otros_vectores |-> 3, magnitud_brote |-> 7]

\* FACTOR_VALUES_BY_STRATEGY: ordered table strategy name -> context values in tenths.
\* The key "_default" is kept as the code points of that literal.
FACTOR_VALUES_BY_STRATEGY ==
  << \* Aplicar adulticidas quimicos como malation o deltametrina para el cont
    [k |-> <<65,112,108,105,99,97,114,32,97,100,117,108,116,105,99,105,100,97,115,32,113,117,237,109,
      105,99,111,115,32,99,111,109,111,32,109,97,108,97,116,105,243,110,32,111,32,100,101,108,
      116,97,109,101,116,114,105,110,97,32,112,97,114,97,32,101,108,32,99,111,110,116,114,111,
      108,32,114,225,112,105,100,111,32,100,101,108,32,118,101,99,116,111,114,32,97,100,117,
      108,116,111,32,101,110,32,101,115,112,97,99,105,111,115,32,97,98,105,101,114,116,111,
      115,46>>,
     v |-> [disponibilidad_recursos |-> 6, costo_operativo |-> -4, tiempo_cobertura |-> 9, dependencias_externas |-> 2, aceptacion_comunidad |-> 5, acceso_predios |-> 7, efectividad_esperada |-> 8]],
     \* Aplicar larvicidas quimicos en criaderos especificos de gran volumen d
    [k |-> <<65,112,108,105,99,97,114,32,108,97,114,118,105,99,105,100,97,115,32,113,117,237,109,105,
      99,111,115,32,101,110,32,99,114,105,97,100,101,114,111,115,32,101,115,112,101,99,237,
      102,105,99,111,115,32,100,101,32,103,114,97,110,32,118,111,108,117,109,101,110,32,100,
      111,110,100,101,32,101,108,32,99,111,110,116,114,111,108,32,102,237,115,105,99,111,32,
      110,111,32,101,115,32,112,111,115,105,98,108,101,46>>,
     v |-> [disponibilidad_recursos |-> 7, costo_operativo |-> -2, tiempo_cobertura |-> 7, dependencias_externas |-> 1, aceptacion_comunidad |-> 6, acceso_predios |-> 6, efectividad_esperada |-> 9]],
     \* Aplicar metodos biologicos para el control larvario del vector, incluy
    [k |-> <<65,112,108,105,99,97,114,32,109,233,116,111,100,111,115,32,98,105,111,108,243,103,105,
      99,111,115,32,112,97,114,97,32,101,108,32,99,111,110,116,114,111,108,32,108,97,114,118,
      97,114,105,111,32,100,101,108,32,118,101,99,116,111,114,44,32,105,110,99,108,117,121,
      101,110,100,111,32,101,108,32,117,115,111,32,100,101,32,112,101,99,101,115,32,108,97,
      114,118,237,118,111,114,111,115,32,121,32,66,97,99,105,108,108,117,115,32,116,104,117,
      114,105,110,103,105,101,110,115,105,115,46>>,
     v |-> [disponibilidad_recursos |-> 5, costo_operativo |-> 3, tiempo_cobertura |-> 4, dependencias_externas |-> 3, aceptacion_comunidad |-> 8, acceso_predios |-> 5, efectividad_esperada |-> 7]],
     \* Articular esfuerzos con los sectores de agua, saneamiento, educacion y
    [k |-> <<65,114,116,105,99,117,108,97,114,32,101,115,102,117,101,114,122,111,115,32,99,111,110,
      32,108,111,115,32,115,101,99,116,111,114,101,115,32,100,101,32,97,103,117,97,44,32,115,
      97,110,101,97,109,105,101,110,116,111,44,32,101,100,117,99,97,99,105,243,110,32,121,32,
      115,101,114,118,105,99,105,111,115,32,112,250,98,108,105,99,111,115,32,112,97,114,97,32,
      97,99,99,105,111,110,101,115,32,112,114,101,118,101,110,116,105,118,97,115,32,115,111,
      115,116,101,110,105,98,108,101,115,46>>,
     v |-> [disponibilidad_recursos |-> 4, costo_operativo |-> 2, tiempo_cobertura |-> 2, dependencias_externas |-> -6, aceptacion_comunidad |-> 7, acceso_predios |-> 6, efectividad_esperada |-> 6]],
     \* Promover practicas preventivas sostenibles mediante campanas educativa
    [k |-> <<80,114,111,109,111,118,101,114,32,112,114,225,99,116,105,99,97,115,32,112,114,101,118,
      101,110,116,105,118,97,115,32,115,111,115,116,101,110,105,98,108,101,115,32,109,101,100,
      105,97,110,116,101,32,99,97,109,112,97,241,97,115,32,101,100,117,99,97,116,105,118,97,
      115,44,32,99,97,112,97,99,105,116,97,99,105,243,110,32,99,111,109,117,110,105,116,97,
      114,105,97,32,121,32,118,105,103,105,108,97,110,99,105,97,32,112,97,114,116,105,99,105,
      112,97,116,105,118,97,46>>,
     v |-> [disponibilidad_recursos |-> 6, costo_operativo |-> 5, tiempo_cobertura |-> 3, dependencias_externas |-> 2, aceptacion_comunidad |-> 9, acceso_predios |-> 8, efectividad_esperada |-> 5]],
     \* Implementar acciones de control fisico en el entorno domiciliario y co
    [k |-> <<73,109,112,108,101,109,101,110,116,97,114,32,97,99,99,105,111,110,101,115,32,100,101,32,
      99,111,110,116,114,111,108,32,102,237,115,105,99,111,32,101,110,32,101,108,32,101,110,
      116,111,114,110,111,32,100,111,109,105,99,105,108,105,97,114,105,111,32,121,32,99,111,
      109,117,110,105,116,97,114,105,111,32,112,97,114,97,32,114,101,100,117,99,105,114,32,
      111,32,101,108,105,109,105,110,97,114,32,99,114,105,97,100,101,114,111,115,32,100,101,
      108,32,118,101,99,116,111,114,46>>,
     v |-> [disponibilidad_recursos |-> 6, costo_operativo |-> 1, tiempo_cobertura |-> 6, dependencias_externas |-> 1, aceptacion_comunidad |-> 7, acceso_predios |-> 4, efectividad_esperada |-> 8]],
     \* _default
    [k |-> <<95,100,101,102,97,117,108,116>>,
     v |-> [disponibilidad_recursos |-> 5, costo_operativo |-> 0, tiempo_cobertura |-> 5, dependencias_externas |-> 0, aceptacion_comunidad |-> 5, acceso_predios |-> 5, efectividad_esperada |-> 6]]
  >>

\* ESCENARIOS (src/escenarios_prescriptivos.py): per scenario id, its nivel_alerta and
\* its factores_estrategia profile (the 11 applicability factors, 0..10).
ESCENARIOS ==
  [ bajo_riesgo |->
      [nivel_alerta |-> 1,
       factores_estrategia |->
         [disponibilidad_recursos |-> 8, costo_operativo |-> 3, 
          tiempo_cobertura |-> 7, dependencias_externas |-> 2, 
          aceptacion_comunidad |-> 8, acceso_predios |-> 8, 
          percepcion_riesgo |-> 6, resistencia_vector |-> 2, 
          otros_vectores |-> 2, efectividad_esperada |-> 7, magnitud_brote |-> 2]],
    riesgo_moderado |->
      [nivel_alerta |-> 2,
       factores_estrategia |->
         [disponibilidad_recursos |-> 6, costo_operativo |-> 5, 
          tiempo_cobertura |-> 5, dependencias_externas |-> 4, 
          aceptacion_comunidad |-> 6, acceso_predios |-> 6, 
          percepcion_riesgo |-> 5, resistencia_vector |-> 4, 
          otros_vectores |-> 3, efectividad_esperada |-> 6, magnitud_brote |-> 5]],
    alto_riesgo |->
      [nivel_alerta |-> 3,
       factores_estrategia |->
         [disponibilidad_recursos |-> 4, costo_operativo |-> 7, 
          tiempo_cobertura |-> 4, dependencias_externas |-> 6, 
          aceptacion_comunidad |-> 5, acceso_predios |-> 5, 
          percepcion_riesgo |-> 7, resistencia_vector |-> 5, 
          otros_vectores |-> 5, efectividad_esperada |-> 6, magnitud_brote |-> 8]],
    emergencia |->
      [nivel_alerta |-> 4,
       factores_estrategia |->
         [disponibilidad_recursos |-> 2, costo_operativo |-> 9, 
          tiempo_cobertura |-> 2, dependencias_externas |-> 8, 
          aceptacion_comunidad |-> 3, acceso_predios |-> 4, 
          percepcion_riesgo |-> 9, resistencia_vector |-> 7, 
          otros_vectores |-> 7, efectividad_esperada |-> 4, 
          magnitud_brote |-> 10]] ]

----------------------------------------------------------------------------
(* Strategy names and indicator names used as inputs *)

\* Aplicar adulticidas quimicos como malation o deltametrina para el control rapido del vector adulto en espacios abiertos.
N_ADULTICIDAS ==
  <<65,112,108,105,99,97,114,32,97,100,117,108,116,105,99,105,100,97,115,32,113,117,237,109,
    105,99,111,115,32,99,111,109,111,32,109,97,108,97,116,105,243,110,32,111,32,100,101,108,
    116,97,109,101,116,114,105,110,97,32,112,97,114,97,32,101,108,32,99,111,110,116,114,111,
    108,32,114,225,112,105,100,111,32,100,101,108,32,118,101,99,116,111,114,32,97,100,117,
    108,116,111,32,101,110,32,101,115,112,97,99,105,111,115,32,97,98,105,101,114,116,111,
    115,46>>

\* Promover practicas preventivas sostenibles mediante campanas educativas, cambio de comportamiento social y vigilancia participativa.
N_PROMOVER ==
  <<80,114,111,109,111,118,101,114,32,112,114,225,99,116,105,99,97,115,32,112,114,101,118,
    101,110,116,105,118,97,115,32,115,111,115,116,101,110,105,98,108,101,115,32,109,101,100,
    105,97,110,116,101,32,99,97,109,112,97,241,97,115,32,101,100,117,99,97,116,105,118,97,
    115,44,32,99,97,109,98,105,111,32,100,101,32,99,111,109,112,111,114,116,97,109,105,101,
    110,116,111,32,115,111,99,105,97,108,32,121,32,118,105,103,105,108,97,110,99,105,97,32,
    112,97,114,116,105,99,105,112,97,116,105,118,97,46>>

\* Aplicar larvicidas quimicos en criaderos especificos de gran volumen donde el control fisico no es posible.
N_LARVICIDAS_VAR ==
  <<65,112,108,105,99,97,114,32,108,97,114,118,105,99,105,100,97,115,32,113,117,237,109,105,
    99,111,115,32,101,110,32,99,114,105,97,100,101,114,111,115,32,101,115,112,101,99,237,
    102,105,99,111,115,32,100,101,32,103,114,97,110,32,118,111,108,117,109,101,110,32,100,
    111,110,100,101,32,101,108,32,99,111,110,116,114,111,108,32,102,237,115,105,99,111,32,
    110,111,32,101,115,32,112,111,115,105,98,108,101,46>>

\* Monitorear condiciones climaticas y gestionar escorrentias o acumulaciones de agua que favorezcan criaderos.
N_MONITOREAR ==
  <<77,111,110,105,116,111,114,101,97,114,32,99,111,110,100,105,99,105,111,110,101,115,32,
    99,108,105,109,225,116,105,99,97,115,32,121,32,103,101,115,116,105,111,110,97,114,32,
    101,115,99,111,114,114,101,110,116,237,97,115,32,111,32,97,99,117,109,117,108,97,99,105,
    111,110,101,115,32,100,101,32,97,103,117,97,32,113,117,101,32,102,97,118,111,114,101,
    122,99,97,110,32,99,114,105,97,100,101,114,111,115,46>>

\* Estrategia piloto de barrio
N_PILOTO ==
  <<69,115,116,114,97,116,101,103,105,97,32,112,105,108,111,116,111,32,100,101,32,98,97,114,
    114,105,111>>
\* Fortalecer la percepcion de riesgo del dengue y promover practicas preventivas comunitarias mediante informacion, educacion y comunicacion.
N_FORTALECER ==
  <<70,111,114,116,97,108,101,99,101,114,32,108,97,32,112,101,114,99,101,112,99,105,243,
    110,32,100,101,32,114,105,101,115,103,111,32,100,101,108,32,100,101,110,103,117,101,
    32,121,32,112,114,111,109,111,118,101,114,32,112,114,225,99,116,105,99,97,115,32,
    112,114,101,118,101,110,116,105,118,97,115,32,99,111,109,117,110,105,116,97,114,105,
    97,115,32,109,101,100,105,97,110,116,101,32,105,110,102,111,114,109,97,99,105,243,
    110,44,32,101,100,117,99,97,99,105,243,110,32,121,32,99,111,109,117,110,105,99,97,
    99,105,243,110,46>>

\* The strategy names the runs draw from, by a short id.
Texto ==
  [adulticidas |-> N_ADULTICIDAS, promover |-> N_PROMOVER, larvicidas |-> N_LARVICIDAS_VAR,
   monitorear |-> N_MONITOREAR, piloto |-> N_PILOTO, fortalecer |-> N_FORTALECER]

NameIds == DOMAIN Texto

\* indicators: the sorted list of unique indicator names of the strategy table.
IndicatorNames == <<"ind_a", "ind_b">>

----------------------------------------------------------------------------
(* check_condition *)

SupportedOps == {"<", "<=", ">", ">="}

Returned(v) == [raised |-> FALSE, ret |-> v]
ValueError == [raised |-> TRUE, ret |-> FALSE]

\* check_condition with the boundary left out of the inclusive operators.
check_condition_LimiteExcluido(value, op, threshold) ==
  IF value = None THEN Returned(FALSE)
  ELSE IF op = "<" THEN Returned(value[1] < threshold)
  ELSE IF op = "<=" THEN Returned(value[1] < threshold)
  ELSE IF op = ">" THEN Returned(value[1] > threshold)
  ELSE IF op = ">=" THEN Returned(value[1] > threshold)
  ELSE ValueError

\* check_condition(value, op, threshold): value is None or <<reading>>.
check_condition(value, op, threshold) ==
  IF value = None THEN Returned(FALSE)
  ELSE IF op = "<" THEN Returned(value[1] < threshold)
  ELSE IF op = "<=" THEN Returned(value[1] <= threshold)
  ELSE IF op = ">" THEN Returned(value[1] > threshold)
  ELSE IF op = ">=" THEN Returned(value[1] >= threshold)
  ELSE ValueError

----------------------------------------------------------------------------
(* normalize_strategy_weights *)

Weights(rules) == [j \in 1..Len(rules) |-> rules[j].weight]

\* One strategy's rules with every weight divided by the total, unless the total is 0.
NormalizeRules(rules) ==
  LET total == RSum(Weights(rules))
  IN  IF total = Zero THEN rules
      ELSE [j \in 1..Len(rules) |-> [rules[j] EXCEPT !.weight = RDiv(@, total)]]

normalize_strategy_weights(cfg) ==
  [i \in 1..Len(cfg) |-> [cfg[i] EXCEPT !.rules = NormalizeRules(@)]]

----------------------------------------------------------------------------
(* build_indicator_matrix *)

\* rule_by_ind = {r["indicator"]: r for r in rules}; rule_by_ind.get(ind):
\* the last rule naming the indicator, None if there is none.
RuleByInd(rules, ind) ==
  LET js == {j \in 1..Len(rules) : rules[j].indicator = ind}
  IN  IF js = {} THEN None
      ELSE Some(rules[CHOOSE j \in js : \A k \in js : k <= j])

\* threshold_config.get(field, default)
ThresholdOp(tc) == IF "op" \in DOMAIN tc THEN tc.op ELSE ">="
ThresholdValue(tc) == IF "threshold" \in DOMAIN tc THEN tc.threshold ELSE 0

\* MatrixCell with the result of check_condition ignored: the weight is entered
\* whenever the indicator has a reading.
MatrixCellSinCondicion(rules, ind, values, thresholds) ==
  LET rule == RuleByInd(rules, ind)
      val == Get(values, ind)
  IN  IF rule = None THEN Returned(Zero)
      ELSE IF val = None THEN Returned(Zero)
      ELSE Returned(rule[1].weight)

\* MatrixCell with an indicator that has no threshold entry left out of compliance.
MatrixCellSinUmbralCero(rules, ind, values, thresholds) ==
  LET rule == RuleByInd(rules, ind)
      val == Get(values, ind)
  IN  IF rule = None THEN Returned(Zero)
      ELSE IF val = None THEN Returned(Zero)
      ELSE IF ind \in DOMAIN thresholds
           THEN LET tc == thresholds[ind]
                    ok == check_condition(val, ThresholdOp(tc), ThresholdValue(tc))
                IN  IF ok.raised THEN ValueError
                    ELSE Returned(IF ok.ret THEN rule[1].weight ELSE Zero)
           ELSE Returned(Zero)

\* One cell of the matrix: [raised, ret] with ret the cell's value.
MatrixCell(rules, ind, values, thresholds) ==
  LET rule == RuleByInd(rules, ind)
      val == Get(values, ind)
  IN  IF rule = None THEN Returned(Zero)
      ELSE IF val = None THEN Returned(Zero)
      ELSE IF ind \in DOMAIN thresholds
           THEN LET tc == thresholds[ind]
                    ok == check_condition(val, ThresholdOp(tc), ThresholdValue(tc))
                IN  IF ok.raised THEN ValueError
                    ELSE Returned(IF ok.ret THEN rule[1].weight ELSE Zero)
           ELSE Returned(rule[1].weight)

\* The matrix as built when no check_condition call raises.
build_indicator_matrix(values, cfg, inds, thresholds) ==
  [i \in 1..Len(cfg) |->
     [c \in 1..Len(inds) |-> MatrixCell(cfg[i].rules, inds[c], values, thresholds).ret]]

\* Whether the call raises ValueError instead of returning.
build_indicator_matrix_raises(values, cfg, inds, thresholds) ==
  \E i \in 1..Len(cfg), c \in 1..Len(inds) :
     MatrixCell(cfg[i].rules, inds[c], values, thresholds).raised

\* strategy_names = list(strategies_config.keys())
StrategyNames(cfg) == [i \in 1..Len(cfg) |-> cfg[i].name]

\* indicator_matrix.sum(axis=1)
Compliance(matrix) == [i \in 1..Len(matrix) |-> RSum(matrix[i])]

----------------------------------------------------------------------------
(* parse_threshold *)

\* The cell handed to parse_threshold: a text, a number, or a missing value (NaN/None).
CeldaTexto(s) == [tipo |-> "texto", texto |-> s, valor |-> 0]
CeldaNumero(n) == [tipo |-> "numero", texto |-> <<>>, valor |-> n]
CeldaFaltante == [tipo |-> "faltante", texto |-> <<>>, valor |-> 0]

\* \d of the re module on str: a decimal digit (Basic Latin and Arabic-Indic here).
IsDigit(c) == (c >= 48 /\ c <= 57) \/ (c >= 1632 /\ c <= 1641)
DigitValue(c) == IF c >= 1632 THEN c - 1632 ELSE c - 48

\* str(n) of an integer.
RECURSIVE StrNat(_)
StrNat(n) == IF n < 10 THEN <<48 + n>> ELSE StrNat(n \div 10) \o <<48 + (n % 10)>>

StrInt(n) == IF n < 0 THEN <<45>> \o StrNat(-n) ELSE StrNat(n)

\* .replace('\u2264', '<=').replace('\u2265', '>=')
RECURSIVE ReplaceUnicode(_)
ReplaceUnicode(s) ==
  IF s = <<>> THEN <<>>
  ELSE (IF Head(s) = 8804 THEN <<60, 61>>
        ELSE IF Head(s) = 8805 THEN <<62, 61>>
        ELSE <<Head(s)>>) \o ReplaceUnicode(Tail(s))

\* \s* from position i: the first position at or after i that is past the end or
\* not white space.
RECURSIVE SkipSpaces(_, _)
SkipSpaces(s, i) == IF i <= Len(s) /\ IsSpace(s[i]) THEN SkipSpaces(s, i + 1) ELSE i

\* \d* from position i.
RECURSIVE SkipDigits(_, _)
SkipDigits(s, i) == IF i <= Len(s) /\ IsDigit(s[i]) THEN SkipDigits(s, i + 1) ELSE i

\* (\d+\.?\d*) matched at position i, greedily: the matched text, None if s[i] is
\* not a digit.
NumberAt(s, i) ==
  IF i <= Len(s) /\ IsDigit(s[i])
  THEN LET a == SkipDigits(s, i)
           b == IF a <= Len(s) /\ s[a] = 46 THEN a + 1 ELSE a
       IN  Some(SubSeq(s, i, SkipDigits(s, b) - 1))
  ELSE None

RECURSIVE Pow10(_)
Pow10(k) == IF k = 0 THEN 1 ELSE 10 * Pow10(k - 1)

\* The digits of t read as a whole number, any dot skipped.
RECURSIVE DigitsValue(_, _)
DigitsValue(t, acc) ==
  IF t = <<>> THEN acc
  ELSE IF Head(t) = 46 THEN DigitsValue(Tail(t), acc)
  ELSE DigitsValue(Tail(t), 10 * acc + DigitValue(Head(t)))

\* float(t) for a text matched by \d+\.?\d*
ToFloat(t) ==
  LET dot == {i \in 1..Len(t) : t[i] = 46}
      decimals == IF dot = {} THEN 0 ELSE Len(t) - (CHOOSE i \in dot : TRUE)
  IN  Rat(DigitsValue(t, 0), Pow10(decimals))

OpChar(c) == IF c = 60 THEN "<" ELSE ">"
OpCharEq(c) == IF c = 60 THEN "<=" ELSE ">="
\* m.group(1) + "=" when group 1 already holds "=".
OpCharEqEq(c) == IF c = 60 THEN "<==" ELSE ">=="

\* Pattern 1, ([<>])\s*=\s*(\d+\.?\d*), matched at position i: (op, val) or None.
MatchCompound(s, i) ==
  IF s[i] \in {60, 62}
  THEN LET j == SkipSpaces(s, i + 1)
       IN  IF j <= Len(s) /\ s[j] = 61
           THEN LET n == NumberAt(s, SkipSpaces(s, j + 1))
                IN  IF n = None THEN None
                    ELSE Some([op |-> OpCharEq(s[i]), val |-> ToFloat(n[1])])
           ELSE None
  ELSE None

\* Pattern 2, ([<>])\s*(\d+\.?\d*), matched at position i.
MatchSimple(s, i) ==
  IF s[i] \in {60, 62}
  THEN LET n == NumberAt(s, SkipSpaces(s, i + 1))
       IN  IF n = None THEN None ELSE Some([op |-> OpChar(s[i]), val |-> ToFloat(n[1])])
  ELSE None

\* Pattern 3, \(([<>]=?)\s*(\d+\.?\d*), matched at position i; its extractor
\* appends "=" to a group 1 that contains "=".
MatchParen(s, i) ==
  IF s[i] = 40 /\ i + 1 <= Len(s) /\ s[i + 1] \in {60, 62}
  THEN LET eq == i + 2 <= Len(s) /\ s[i + 2] = 61
           n == NumberAt(s, SkipSpaces(s, IF eq THEN i + 3 ELSE i + 2))
       IN  IF n = None THEN None
           ELSE Some([op |-> IF eq THEN OpCharEqEq(s[i + 1]) ELSE OpChar(s[i + 1]),
                      val |-> ToFloat(n[1])])
  ELSE None

\* re.search: the match at the leftmost position where the pattern matches.
SearchCompound(s) ==
  LET hits == {i \in 1..Len(s) : MatchCompound(s, i) # None}
  IN  IF hits = {} THEN None ELSE MatchCompound(s, CHOOSE i \in hits : \A j \in hits : i <= j)

SearchSimple(s) ==
  LET hits == {i \in 1..Len(s) : MatchSimple(s, i) # None}
  IN  IF hits = {} THEN None ELSE MatchSimple(s, CHOOSE i \in hits : \A j \in hits : i <= j)

SearchParen(s) ==
  LET hits == {i \in 1..Len(s) : MatchParen(s, i) # None}
  IN  IF hits = {} THEN None ELSE MatchParen(s, CHOOSE i \in hits : \A j \in hits : i <= j)

\* The last bare number of the text instead of the first.
SearchNumberUltimo(s) ==
  LET hits == {i \in 1..Len(s) : IsDigit(s[i]) /\ (i = 1 \/ ~IsDigit(s[i - 1]))}
  IN  IF hits = {} THEN None
      ELSE Some(ToFloat(NumberAt(s, CHOOSE i \in hits : \A j \in hits : j <= i)[1]))

\* re.search(r'(\d+\.?\d*)', s): the first bare number.
SearchNumber(s) ==
  LET hits == {i \in 1..Len(s) : IsDigit(s[i])}
  IN  IF hits = {} THEN None
      ELSE Some(ToFloat(NumberAt(s, CHOOSE i \in hits : \A j \in hits : i <= j)[1]))

\* The patterns tried in the order: simple, compound, parenthesis.
FirstPatternSimplePrimero(s) ==
  IF SearchSimple(s) # None THEN SearchSimple(s)
  ELSE IF SearchCompound(s) # None THEN SearchCompound(s)
  ELSE SearchParen(s)

\* for pattern, extractor in patterns: the first pattern that matches.
FirstPattern(s) ==
  IF SearchCompound(s) # None THEN SearchCompound(s)
  ELSE IF SearchSimple(s) # None THEN SearchSimple(s)
  ELSE SearchParen(s)

\* The text that the patterns are applied to: str(umbral_str).strip(), normalized.
TextoDeCelda(celda) ==
  ReplaceUnicode(Strip(IF celda.tipo = "numero" THEN StrInt(celda.valor) ELSE celda.texto))

\* pd.isna(umbral_str) or not umbral_str
CeldaVacia(celda) ==
  \/ celda.tipo = "faltante"
  \/ celda.tipo = "texto" /\ celda.texto = <<>>
  \/ celda.tipo = "numero" /\ celda.valor = 0

\* The same with the parenthesis pattern tried before the other two.
parse_threshold_ParentesisPrimero(celda) ==
  IF CeldaVacia(celda) THEN <<None, None>>
  ELSE LET s == TextoDeCelda(celda)
           m == IF SearchParen(s) # None THEN SearchParen(s) ELSE FirstPattern(s)
       IN  IF m # None THEN <<Some(m[1].op), Some(m[1].val)>>
           ELSE LET number_match == SearchNumber(s)
                IN  IF number_match # None THEN <<Some(">="), number_match>>
                    ELSE <<None, None>>

\* parse_threshold(umbral_str): the pair (op, val), each None or <<x>>.
parse_threshold(celda) ==
  IF CeldaVacia(celda) THEN <<None, None>>
  ELSE LET s == TextoDeCelda(celda)
           m == FirstPattern(s)
       IN  IF m # None THEN <<Some(m[1].op), Some(m[1].val)>>
           ELSE LET number_match == SearchNumber(s)
                IN  IF number_match # None THEN <<Some(">="), number_match>>
                    ELSE <<None, None>>

----------------------------------------------------------------------------
(* ejecutar_escenario: the count of critical and normal indicators *)

\* The count with an indicator that has a threshold but no reading taken as normal.
ContarIndicadoresSinLecturaNormal(inds, values, thresholds) ==
  LET conUmbral == {c \in 1..Len(inds) : inds[c] \in DOMAIN thresholds}
      res(c) == check_condition(Get(values, inds[c]), thresholds[inds[c]].op,
                                thresholds[inds[c]].threshold)
  IN  IF \E c \in conUmbral : res(c).raised THEN ValueError
      ELSE Returned([criticos |-> Cardinality({c \in conUmbral : res(c).ret}),
                     normales |-> Cardinality({c \in conUmbral : ~res(c).ret})])

\* The loop over indicators after the ranking: an indicator with a reading and a
\* threshold entry is critical when check_condition holds and normal otherwise;
\* the loop raises when check_condition raises.
ContarIndicadores(inds, values, thresholds) ==
  LET evaluados == {c \in 1..Len(inds) :
                      Get(values, inds[c]) # None /\ inds[c] \in DOMAIN thresholds}
      res(c) == check_condition(Get(values, inds[c]), thresholds[inds[c]].op,
                                thresholds[inds[c]].threshold)
  IN  IF \E c \in evaluados : res(c).raised THEN ValueError
      ELSE Returned([criticos |-> Cardinality({c \in evaluados : res(c).ret}),
                     normales |-> Cardinality({c \in evaluados : ~res(c).ret})])

----------------------------------------------------------------------------
(* normalize_strategy_weights in rounded arithmetic *)

\* Binary floating point with Precision significant bits and round-half-to-even,
\* on non-negative values (the weights): every sum and every quotient of
\* normalize_strategy_weights is rounded as the float operation rounds it.

RECURSIVE Pow2(_)
Pow2(k) == IF k = 0 THEN 1 ELSE 2 * Pow2(k - 1)

\* The integer nearest to x >= 0, a tie going to the even one.
RoundHalfEven(x) ==
  LET m == x.num \div x.den
      r2 == 2 * (x.num % x.den)
  IN  IF r2 > x.den \/ (r2 = x.den /\ m % 2 = 1) THEN m + 1 ELSE m

\* x * 2^e rounded to Precision significant bits, for x > 0.
RECURSIVE FlEscalado(_, _)
FlEscalado(x, e) ==
  IF RLe(Rat(Pow2(Precision), 1), x) THEN FlEscalado(RDiv(x, Rat(2, 1)), e + 1)
  ELSE IF RLt(x, Rat(Pow2(Precision - 1), 1)) THEN FlEscalado(RMul(x, Rat(2, 1)), e - 1)
  ELSE IF e >= 0 THEN Rat(RoundHalfEven(x) * Pow2(e), 1)
  ELSE Rat(RoundHalfEven(x), Pow2(-e))

\* The float nearest to x.
Fl(x) == IF x.num = 0 THEN Zero ELSE FlEscalado(x, 0)

\* sum(...) of floats: plain left-to-right accumulation ("simple", Python before
\* 3.12) or compensated summation, which returns the rounded exact sum ("compensada").
RECURSIVE SumaSimple(_, _)
SumaSimple(acc, s) ==
  IF s = <<>> THEN acc ELSE SumaSimple(Fl(RAdd(acc, Head(s))), Tail(s))

ModosDeSuma == {"simple", "compensada"}

FlSum(s, modo) == IF modo = "simple" THEN SumaSimple(Zero, s) ELSE Fl(RSum(s))

\* The weights divided by the number of rules instead of by their total.
NormalizeRulesPorCantidad(rules, modo) ==
  LET total == FlSum(Weights(rules), modo)
  IN  IF total = Zero THEN rules
      ELSE [j \in 1..Len(rules) |->
              [rules[j] EXCEPT !.weight = Fl(RDiv(@, Rat(Len(rules), 1)))]]

\* One strategy's rules: total = sum(weights); unless total == 0, each weight / total.
NormalizeRulesFl(rules, modo) ==
  LET total == FlSum(Weights(rules), modo)
  IN  IF total = Zero THEN rules
      ELSE [j \in 1..Len(rules) |-> [rules[j] EXCEPT !.weight = Fl(RDiv(@, total))]]

normalize_strategy_weights_fl(cfg, modo) ==
  [i \in 1..Len(cfg) |-> [cfg[i] EXCEPT !.rules = NormalizeRulesFl(@, modo)]]

----------------------------------------------------------------------------
(* load_strategies_from_xlsx: the threshold table *)

\* indicator_thresholds gets an entry only for an indicator whose parse result
\* has both an operator and a value; parsed[ind] = <<op, val>>, each None or <<x>>.
LoadThresholds(parsed) ==
  LET ok == {ind \in DOMAIN parsed : parsed[ind][1] # None /\ parsed[ind][2] # None}
  IN  [ind \in ok |-> [op |-> parsed[ind][1][1], threshold |-> parsed[ind][2][1]]]

----------------------------------------------------------------------------
(* normalize_criterion *)

\* normalize_criterion dividing by the maximum instead of the range.
NormalizeCriterionPorMaximo(values, maximize) ==
  IF Len(values) = 0 THEN values
  ELSE LET min_val == RMin(values)
           max_val == RMax(values)
       IN  IF max_val = min_val THEN [i \in 1..Len(values) |-> One]
           ELSE LET normalized ==
                      [i \in 1..Len(values) |->
                         IF max_val = Zero THEN RSub(values[i], min_val)
                         ELSE RDiv(RSub(values[i], min_val), max_val)]
                IN  IF maximize THEN normalized
                    ELSE [i \in 1..Len(values) |-> RSub(One, normalized[i])]

\* The constant case answered with zeros (zeros_like) instead of ones.
OnesComoCeros(values) == [i \in 1..Len(values) |-> Zero]

Ones(values) == [i \in 1..Len(values) |-> One]

normalize_criterion(values, maximize) ==
  IF Len(values) = 0 THEN values
  ELSE LET min_val == RMin(values)
           max_val == RMax(values)
       IN  IF max_val = min_val THEN Ones(values)
           ELSE LET normalized ==
                      [i \in 1..Len(values) |->
                         RDiv(RSub(values[i], min_val), RSub(max_val, min_val))]
                IN  IF maximize THEN normalized
                    ELSE [i \in 1..Len(values) |-> RSub(One, normalized[i])]

----------------------------------------------------------------------------
(* build_mcda_matrix *)

\* The first key of the ordered dict strategy_factors that matches est by the
\* 30-character prefix rule or by containment in either direction; 0 if none.
FuzzyFactorKey(est, factors_od) ==
  LET est_normalized == Strip(Texto[est])
      Hit(i) ==
        LET est_key_normalized == Strip(Texto[factors_od[i].k])
        IN  \/ /\ Len(est_normalized) > 30
               /\ Len(est_key_normalized) > 30
               /\ Prefix(est_normalized, 30) = Prefix(est_key_normalized, 30)
            \/ Contains(est_key_normalized, est_normalized)
            \/ Contains(est_normalized, est_key_normalized)
      hits == {i \in 1..Len(factors_od) : Hit(i)}
  IN  IF hits = {} THEN 0 ELSE CHOOSE i \in hits : \A j \in hits : i <= j

\* factors: strategy_factors.get(est, {}), then the partial match when that is empty.
\* An empty dict is the empty function <<>>.
FactorsFor(est, factors_od) ==
  LET i == IndexOfKey(factors_od, est)
      exact == IF i = 0 THEN <<>> ELSE factors_od[i].v
  IN  IF DOMAIN exact # {} THEN exact
      ELSE LET j == FuzzyFactorKey(est, factors_od)
           IN  IF j = 0 THEN exact ELSE factors_od[j].v

DEFAULT_KEY == <<95, 100, 101, 102, 97, 117, 108, 116>>  \* "_default"

\* The context lookup without the fallback: a strategy that is not a key gets {}.
ContextValuesForSinDefault(est, by_strategy) ==
  LET i == IndexOfKey(by_strategy, Texto[est])
  IN  IF i # 0 THEN by_strategy[i].v ELSE <<>>

\* factor_values_by_strategy.get(est, factor_values_by_strategy.get("_default", {}))
ContextValuesFor(est, by_strategy) ==
  LET i == IndexOfKey(by_strategy, Texto[est])
      d == IndexOfKey(by_strategy, DEFAULT_KEY)
  IN  IF i # 0 THEN by_strategy[i].v
      ELSE IF d # 0 THEN by_strategy[d].v
      ELSE <<>>

\* The context value of one factor with the strategy's own value taking precedence
\* over the general one.
FactorContextoEspecificoPrimero(factor_name, context_values, general) ==
  IF factor_name \in DOMAIN context_values THEN Tenths(context_values[factor_name])
  ELSE IF factor_name \in DOMAIN general THEN Tenths(general[factor_name])
  ELSE Zero

\* The context value of one factor: the general value when the general map has
\* the name, otherwise the strategy's own value (0 when absent).
FactorContexto(factor_name, context_values, general) ==
  IF factor_name \in DOMAIN general THEN Tenths(general[factor_name])
  ELSE IF factor_name \in DOMAIN context_values THEN Tenths(context_values[factor_name])
  ELSE Zero

\* The context values of each strategy name under the module-level table,
\* evaluated once per name.
ContextValuesPorNombre == [n \in NameIds |-> ContextValuesFor(n, FACTOR_VALUES_BY_STRATEGY)]

\* score_total of one strategy: the sum over FACTOR_NAMES of factor x context value.
FactorScore(factors, context_values, general) ==
  LET Term(f) ==
        LET factor_estrategia == IF f \in DOMAIN factors THEN Rat(factors[f], 1) ELSE Zero
        IN  RMul(factor_estrategia, FactorContexto(f, context_values, general))
  IN  RSum([n \in 1..Len(FACTOR_NAMES) |-> Term(FACTOR_NAMES[n])])

\* factor_scores: one score per strategy, in strategy order.
FactorScores(names, factors_od, context_by_name, general) ==
  [i \in 1..Len(names) |->
     FactorScore(FactorsFor(names[i], factors_od), context_by_name[names[i]], general)]

\* The matrix of build_mcda_matrix(..., normalize=True) from the two raw criteria:
\* rows <<compliance_norm, factor_scores_norm>>.
McdaMatrix(compliance, factor_scores) ==
  LET compliance_norm == normalize_criterion(compliance, TRUE)
      factor_scores_norm == normalize_criterion(factor_scores, TRUE)
  IN  [i \in 1..Len(compliance) |-> <<compliance_norm[i], factor_scores_norm[i]>>]

\* build_mcda_matrix returns (mcda_matrix, criteria_names, factor_scores).
build_mcda_matrix(matrix, names, factors_od, context_by_name, general) ==
  LET factor_scores == FactorScores(names, factors_od, context_by_name, general)
  IN  [mcda_matrix |-> McdaMatrix(Compliance(matrix), factor_scores),
       factor_scores |-> factor_scores]

----------------------------------------------------------------------------
(* The weighted sum model: skc.mkdm(...) and WeightedSumModel().evaluate(dm) *)

\* weights = [1.0 / num_criteria] * num_criteria with two criteria
CriterionWeights == <<Rat(1, 2), Rat(1, 2)>>

\* The score taken from the compliance criterion alone.
WeightedSumScoreSoloCumplimiento(matrix, weights) ==
  [i \in 1..Len(matrix) |-> matrix[i][1]]

\* result.e_.score: per alternative, the inner product of its row and the weights.
WeightedSumScore(matrix, weights) ==
  [i \in 1..Len(matrix) |->
     RSum([j \in 1..Len(weights) |-> RMul(matrix[i][j], weights[j])])]

\* result.rank_: the library ranks the scores densely, best first: an alternative's
\* rank is 1 + the number of distinct scores above its own, so equal scores share a rank.
DenseRank(scores) ==
  [i \in 1..Len(scores) |->
     1 + Cardinality({scores[j] : j \in {k \in 1..Len(scores) : RLt(scores[i], scores[k])}})]

----------------------------------------------------------------------------
(* get_tipo_respuesta and aplicar_multiplicador_urgencia *)

\* The normalisation without lower(): the 50-character comparison is case-sensitive.
Norm50SinMinusculas(s) == Prefix(Strip(s), 50)

\* est_key.strip()[:50].lower()
Norm50(s) == Lower(Prefix(Strip(s), 50))

get_tipo_respuesta(estrategia) ==
  LET exact == IndexOfKey(ESTRATEGIA_TIPO_RESPUESTA, estrategia)
      est_norm == Norm50(estrategia)
      hits == {i \in 1..Len(ESTRATEGIA_TIPO_RESPUESTA) :
                 Norm50(ESTRATEGIA_TIPO_RESPUESTA[i].k) = est_norm}
  IN  IF exact # 0 THEN ESTRATEGIA_TIPO_RESPUESTA[exact].v
      ELSE IF hits # {}
           THEN ESTRATEGIA_TIPO_RESPUESTA[CHOOSE i \in hits : \A j \in hits : i <= j].v
      ELSE "activa"

\* mult_contexto: the keyword table of the context, {} when the context is None,
\* empty, or not a key of CONTEXTO_ESCENARIO.
MultContexto(contexto) ==
  IF contexto # None /\ contexto[1] # "" /\ contexto[1] \in DOMAIN CONTEXTO_ESCENARIO
  THEN CONTEXTO_ESCENARIO[contexto[1]]
  ELSE <<>>

\* mult_ctx without the break: the last keyword found in the name wins.
MultCtxUltimaPalabra(est_name, mult_contexto) ==
  LET name_lower == Lower(est_name)
      hits == {i \in 1..Len(mult_contexto) : Contains(name_lower, Lower(mult_contexto[i].k))}
  IN  IF hits = {} THEN One
      ELSE Tenths(mult_contexto[CHOOSE i \in hits : \A j \in hits : j <= i].v)

\* mult_ctx: the multiplier of the first keyword found in the name, else 1.0.
MultCtx(est_name, mult_contexto) ==
  LET name_lower == Lower(est_name)
      hits == {i \in 1..Len(mult_contexto) : Contains(name_lower, Lower(mult_contexto[i].k))}
  IN  IF hits = {} THEN One
      ELSE Tenths(mult_contexto[CHOOSE i \in hits : \A j \in hits : i <= j].v)

\* The severity multiplier ignored: every response type weighs 1.0.
MultNivelNeutro(multiplicadores, tipo) == One

\* multiplicadores.get(tipo, 1.0)
MultNivel(multiplicadores, tipo) ==
  IF tipo \in DOMAIN multiplicadores THEN Tenths(multiplicadores[tipo]) ELSE One

\* get_tipo_respuesta and the context multiplier are pure functions of the name:
\* they are evaluated once per strategy name and context and looked up afterwards.
TipoPorNombre == [n \in NameIds |-> get_tipo_respuesta(Texto[n])]

MultCtxPorNombre ==
  [c \in DOMAIN CONTEXTO_ESCENARIO |->
     [n \in NameIds |-> MultCtx(Texto[n], CONTEXTO_ESCENARIO[c])]]

\* mult_ctx of the loop body for strategy n under the given context argument.
MultCtxDe(n, contexto) ==
  IF MultContexto(contexto) = <<>> THEN MultCtx(Texto[n], <<>>)
  ELSE MultCtxPorNombre[contexto[1]][n]

\* The vector before the final division: score * mult_nivel * mult_ctx.
ScoresSinNormalizar(scores, names, nivel, contexto) ==
  LET multiplicadores == MULTIPLICADORES_URGENCIA[nivel]
  IN  [i \in 1..Len(scores) |->
         RMul(RMul(scores[i], MultNivel(multiplicadores, TipoPorNombre[names[i]])),
              MultCtxDe(names[i], contexto))]

\* The adjusted vector returned without the division by its maximum.
DividirPorMaximoOmitido(v) == v

\* The final division by the maximum, done only when the maximum is positive.
DividirPorMaximo(v) ==
  IF Len(v) > 0
  THEN LET max_score == RMax(v)
       IN  IF RLt(Zero, max_score) THEN [i \in 1..Len(v) |-> RDiv(v[i], max_score)]
           ELSE v
  ELSE v

\* The same without the early return: an unknown level still divides by the maximum.
aplicar_multiplicador_urgencia_SinRetornoTemprano(scores, names, nivel, contexto) ==
  DividirPorMaximo(IF nivel \in DOMAIN MULTIPLICADORES_URGENCIA
                   THEN ScoresSinNormalizar(scores, names, nivel, contexto)
                   ELSE scores)

aplicar_multiplicador_urgencia(scores, names, nivel, contexto) ==
  IF nivel \notin DOMAIN MULTIPLICADORES_URGENCIA THEN scores
  ELSE DividirPorMaximo(ScoresSinNormalizar(scores, names, nivel, contexto))

----------------------------------------------------------------------------
(* ejecutar_escenario: severity level and re-ranking *)

NivelesValidos == {"bajo_riesgo", "riesgo_moderado", "alto_riesgo", "emergencia"}

\* The same by nivel_alerta alone, whatever the scenario id.
NivelRiesgoSoloPorAlerta(id, esc) ==
  LET nivel_alerta == IF "nivel_alerta" \in DOMAIN esc THEN esc.nivel_alerta ELSE 2
  IN  IF nivel_alerta = 1 THEN "bajo_riesgo"
      ELSE IF nivel_alerta = 2 THEN "riesgo_moderado"
      ELSE IF nivel_alerta = 3 THEN "alto_riesgo"
      ELSE IF nivel_alerta = 4 THEN "emergencia"
      ELSE "riesgo_moderado"

\* nivel_riesgo: the scenario id when it is a level, else by nivel_alerta (default 2).
NivelRiesgo(id, esc) ==
  IF id \in NivelesValidos THEN id
  ELSE LET nivel_alerta == IF "nivel_alerta" \in DOMAIN esc THEN esc.nivel_alerta ELSE 2
       IN  IF nivel_alerta = 1 THEN "bajo_riesgo"
           ELSE IF nivel_alerta = 2 THEN "riesgo_moderado"
           ELSE IF nivel_alerta = 3 THEN "alto_riesgo"
           ELSE IF nivel_alerta = 4 THEN "emergencia"
           ELSE "riesgo_moderado"

IndexPermutations(n) == {p \in [1..n -> 1..n] : \A a, b \in 1..n : a # b => p[a] # p[b]}

\* np.argsort(scores): the index orders that sort the scores ascending.  The default
\* sort kind is not stable, so equal scores may come out in any order.
ArgSorts(scores) ==
  {p \in IndexPermutations(Len(scores)) :
     \A a \in 1..(Len(scores) - 1) : RLe(scores[p[a]], scores[p[a + 1]])}

\* The ranks taken from the ascending order, without the reversal.
RanksFromArgSortAscendente(p) ==
  [idx \in 1..Len(p) |-> CHOOSE r \in 1..Len(p) : p[r] = idx]

\* indices_ordenados = argsort[::-1]; ranks_ajustados[idx] = rank for rank, idx in
\* enumerate(indices_ordenados, 1).
RanksFromArgSort(p) ==
  LET n == Len(p)
      indices_ordenados == [r \in 1..n |-> p[n + 1 - r]]
  IN  [idx \in 1..n |-> CHOOSE r \in 1..n : indices_ordenados[r] = idx]

----------------------------------------------------------------------------
(* Inputs *)

IndicatorSet == {IndicatorNames[c] : c \in 1..Len(IndicatorNames)}

Readings == 0..MaxReading

\* Every dict from some of the indicators to a reading.
ReadingTables == UNION {[S -> Readings] : S \in SUBSET IndicatorSet}

ThresholdValues == {1}

\* What parse_threshold can return for a threshold text: (None, None) or (op, value).
ParseResults ==
  {<<None, None>>} \cup {<<Some(op), Some(v)>> : op \in SupportedOps, v \in ThresholdValues}

\* Rule lists of a strategy: each indicator at most once, integer raw weights.
RuleLists ==
  LET seqs == UNION {[1..n -> [indicator : IndicatorSet,
                               weight : {Rat(w, 1) : w \in 0..MaxWeight}]] :
                       n \in 0..Len(IndicatorNames)}
  IN  {r \in seqs : \A a, b \in 1..Len(r) : a # b => r[a].indicator # r[b].indicator}

ShortRuleLists == {r \in RuleLists : Len(r) <= 1}

\* The strategy/indicator table of the scoring runs: each strategy's rules.
TablaEstrategias ==
  [adulticidas |-> << [indicator |-> "ind_a", weight |-> Rat(1, 1)],
                      [indicator |-> "ind_b", weight |-> Rat(1, 1)] >>,
   promover    |-> << [indicator |-> "ind_b", weight |-> Rat(2, 1)] >>,
   larvicidas  |-> << [indicator |-> "ind_a", weight |-> Rat(1, 1)] >>,
   monitorear  |-> << [indicator |-> "ind_a", weight |-> Rat(1, 1)],
                      [indicator |-> "ind_b", weight |-> Rat(2, 1)] >>,
   piloto      |-> << [indicator |-> "ind_a", weight |-> Rat(0, 1)] >>]

\* Lists of distinct strategies of the strategy table, at most MaxStrategies long.
NameLists ==
  LET seqs == UNION {[1..n -> DOMAIN TablaEstrategias] : n \in 1..MaxStrategies}
  IN  {s \in seqs : \A a, b \in 1..Len(s) : a # b => s[a] # s[b]}

\* strategy_names handed to a direct call: lists of distinct names, any of NameIds.
NameListsLlamada ==
  LET seqs == UNION {[1..n -> NameIds] : n \in 1..MaxStrategies}
  IN  {s \in seqs : \A a, b \in 1..Len(s) : a # b => s[a] # s[b]}

\* Threshold parse results of the scoring runs.
UmbralesEscenario ==
  {[ind_a |-> <<Some(">="), Some(1)>>, ind_b |-> u] :
     u \in {<<None, None>>, <<Some("<"), Some(1)>>}}

ContextosEscenario == {None, Some("alta_densidad")}

\* Base scores handed to a direct call of aplicar_multiplicador_urgencia.
ScorePool == {Zero, Rat(1, 2), One}
NivelesLlamada == NivelesValidos \cup {"desconocido"}
ContextosLlamada == {None, Some("lluvias_intensas"), Some("alta_densidad"), Some("desconocido")}

\* Entries of a vector handed to a direct call of normalize_criterion.
ValuePool == {Rat(v, 1) : v \in (-1)..MaxReading}

\* Factor names of the dicts handed to a direct call of build_mcda_matrix: one that
\* FACTOR_VALUES_GENERAL has, one that is strategy-specific, one outside FACTOR_NAMES.
FactorKeys == {"percepcion_riesgo", "costo_operativo", "factor_ajeno"}

\* strategy_factors values: dicts from some of the factor names to a 0-10 value.
FactorDicts == UNION {[S -> {3}] : S \in SUBSET FactorKeys}

\* strategy_factors tables for the given names: every name with the same dict, only
\* the first name, or no name at all.
StrategyFactorsTables(names) ==
  LET full(F) == [i \in 1..Len(names) |-> [k |-> names[i], v |-> F]]
  IN  UNION {{full(F), SubSeq(full(F), 1, 1)} : F \in FactorDicts} \cup {<<>>}

\* A small factor_values_by_strategy: one strategy and the default profile; the
\* strategy's dict also names a general factor and a name outside FACTOR_NAMES.
BY_PILOTO ==
  << [k |-> N_PILOTO,
      v |-> [costo_operativo |-> -4, percepcion_riesgo |-> 2, factor_ajeno |-> 9]],
     [k |-> DEFAULT_KEY, v |-> [costo_operativo |-> 3]] >>

\* factor_values_by_strategy arguments: the module table, the small one, {}.
ContextTable(b) ==
  CASE b = "modulo" -> FACTOR_VALUES_BY_STRATEGY
    [] b = "piloto" -> BY_PILOTO
    [] OTHER -> <<>>

ContextTableIds == {"modulo", "piloto", "vacio"}

\* factor_values_general arguments: the module table, {}, one that also names a
\* strategy-specific factor.
GeneralTable(g) ==
  CASE g = "modulo" -> FACTOR_VALUES_GENERAL
    [] g = "costo" -> [costo_operativo |-> 5]
    [] OTHER -> <<>>

GeneralTableIds == {"modulo", "costo", "vacio"}

\* strategy_names of a direct call of build_mcda_matrix: one or two names.
NameListsMcda == {s \in NameListsLlamada : Len(s) <= 2}

\* indicator_matrix of a direct call: one column, each row 0 or 1.
MatricesDeUnaColumna(n) == [1..n -> {<<Zero>>, <<One>>}]

\* Names handed to a direct call of get_tipo_respuesta: every taxonomy key, and of
\* each key its lower-case form, its first 50 and first 49 characters and the key
\* padded with white space in front or behind; the strategy names; the empty name.
NombresTipo ==
  LET keys == {ESTRATEGIA_TIPO_RESPUESTA[i].k : i \in 1..Len(ESTRATEGIA_TIPO_RESPUESTA)}
  IN  keys
      \cup {Lower(k) : k \in keys}
      \cup {Prefix(k, 50) : k \in keys}
      \cup {Prefix(k, 49) : k \in keys}
      \cup {<<32>> \o k : k \in keys}
      \cup {k \o <<32, 10>> : k \in keys}
      \cup {Texto[n] : n \in NameIds}
      \cup {<<>>}

\* contexto_escenario arguments: every context of the table, none, the empty string
\* and an id the table does not have.
ContextosTodos ==
  {Some(c) : c \in DOMAIN CONTEXTO_ESCENARIO} \cup {None, Some(""), Some("desconocido")}

\* strategy_names of a call that compares context multipliers: one or two names.
NameListsContexto == {s \in NameListsLlamada : Len(s) <= 2}

\* Arguments of a direct call of check_condition: readings and thresholds around
\* each other, the four operators and two texts that are none of them.
ValoresCondicion == (-1)..(MaxReading + 1)
OperadoresLlamada == SupportedOps \cup {"==", "=>"}

\* Threshold tables handed over by the module that ejecutar_escenario receives
\* as mcda_module: every indicator absent or given one operator, supported or not.
OperadoresTabla == {">=", "<", "=="}
TablasDeUmbrales ==
  UNION {[S -> {[op |-> o, threshold |-> 1] : o \in OperadoresTabla}] :
           S \in SUBSET IndicatorSet}
NameListsTabla == {s \in NameLists : Len(s) <= 2}

\* Rule lists handed to a direct call of normalize_strategy_weights: up to three
\* rules with integer weights.
IndicadoresPesos == <<"ind_a", "ind_b", "ind_c">>
PesosLlamada == 0..(MaxWeight + 1)
RuleListsPesos ==
  UNION {{[j \in 1..n |-> [indicator |-> IndicadoresPesos[j], weight |-> Rat(w[j], 1)]] :
            w \in [1..n -> PesosLlamada]} : n \in 0..Len(IndicadoresPesos)}
SegundaEstrategiaPesos ==
  {<<>>, <<[indicator |-> "ind_a", weight |-> Zero]>>,
   <<[indicator |-> "ind_a", weight |-> One], [indicator |-> "ind_b", weight |-> Rat(2, 1)]>>}

\* Threshold texts: the texts of the docstring of parse_threshold and others like them.
T_MENOR_70 == <<60, 32, 55, 48, 37>>  \* '< 70%'
T_MAYOR_IGUAL_50 == <<8805, 32, 53, 48>>  \* '≥ 50'
T_TIPO_II == <<84, 105, 112, 111, 32, 73, 73, 32, 40, 8805, 32, 54, 32, 115, 101, 109, 97, 110, 97, 115, 41>>  \* 'Tipo II (≥ 6 semanas)'
T_CASOS_BARRIO == <<62, 32, 51, 32, 99, 97, 115, 111, 115, 47, 98, 97, 114, 114, 105, 111>>  \* '> 3 casos/barrio'
T_NEGATIVO == <<60, 32, 45, 53>>  \* '< -5'
T_DECIMAL == <<60, 61, 32, 50, 46, 53, 32, 37>>  \* '<= 2.5 %'
T_SOLO_NUMERO == <<56, 48, 32, 37>>  \* '80 %'
T_SIN_NUMERO == <<84, 105, 112, 111, 32, 73, 73>>  \* 'Tipo II'

TextosDeEjemplo ==
  {T_MENOR_70, T_MAYOR_IGUAL_50, T_TIPO_II, T_CASOS_BARRIO, T_NEGATIVO, T_DECIMAL, T_SOLO_NUMERO, T_SIN_NUMERO}

\* Every text of at most MaxTexto characters over: < > = \u2265 ( space 5 . x
AlfabetoUmbral == {60, 62, 61, 8805, 40, 32, 53, 46, 120}
TextosCortos == UNION {[1..n -> AlfabetoUmbral] : n \in 0..MaxTexto}

\* The cells handed to parse_threshold.
CeldasUmbral ==
  {CeldaTexto(s) : s \in TextosCortos \cup TextosDeEjemplo}
    \cup {CeldaNumero(n) : n \in {-5, 0, 5}} \cup {CeldaFaltante}

\* Inputs of main(): the table of strategies, and the two files, each present
\* (its content) or not (None).
NameListsMain == {s \in NameLists : Len(s) = 2 /\ s[1] = "adulticidas"}
ArchivosDeValores == {None} \cup {Some(t) : t \in {[ind_a |-> 1, ind_b |-> 0], [ind_a |-> 0]}}
FactoresDeArchivo == [f \in {"percepcion_riesgo", "costo_operativo"} |-> 3]
ArchivosDeFactores(names) ==
  {None, Some([i \in 1..Len(names) |-> [k |-> names[i], v |-> FactoresDeArchivo]]),
   Some(<<[k |-> names[1], v |-> FactoresDeArchivo]>>)}

\* Outcomes of np.random.uniform(min_val, max_val) around a threshold and of
\* np.random.uniform(-5, 5): the low end, the middle and a value near the high end.
ValoresGenerados(thresholds, ind) ==
  IF ind \in DOMAIN thresholds
  THEN {thresholds[ind].threshold - 10, thresholds[ind].threshold,
        thresholds[ind].threshold + 9}
  ELSE {-5, 0, 4}

\* Outcomes of {factor_name: np.random.randint(0, 11) for factor_name in FACTOR_NAMES}:
\* the two extreme draws.
FactoresGenerados ==
  {[f \in {FACTOR_NAMES[n] : n \in 1..Len(FACTOR_NAMES)} |-> v] : v \in {0, 10}}

NoOutputs ==
  /\ indicator_thresholds = <<>>
  /\ strategy_factors = <<>>
  /\ nivel_riesgo = None
  /\ indicator_matrix = <<>>
  /\ factor_scores_raw = <<>>
  /\ mcda_matrix = <<>>
  /\ score = <<>>
  /\ rank_ = <<>>
  /\ scores_ajustados = <<>>
  /\ ranks_ajustados = <<>>
  /\ indicadores_criticos = None
  /\ indicadores_normales = None
  /\ ret = <<>>

\* A scoring run of ejecutar_escenario over the strategy table.
Init ==
  /\ pc = "rows"
  /\ \E names \in NameLists :
        strategies_config =
          [i \in 1..Len(names) |-> [name |-> names[i], rules |-> TablaEstrategias[names[i]]]]
  /\ indicators = IndicatorNames
  /\ indicator_values \in ReadingTables
  /\ umbrales \in UmbralesEscenario
  /\ escenario_id \in DOMAIN ESCENARIOS
  /\ escenario = ESCENARIOS[escenario_id]
  /\ contexto_escenario \in ContextosEscenario
  /\ arg = <<>>
  /\ NoOutputs

\* The first half of a run, over every small strategy table, reading table and
\* threshold table: the compliance matrix.
InitMatrix ==
  /\ pc = "rows"
  /\ \E r1 \in RuleLists, r2 \in ShortRuleLists :
        strategies_config = << [name |-> "adulticidas", rules |-> r1],
                               [name |-> "promover", rules |-> r2] >>
  /\ indicators = IndicatorNames
  /\ indicator_values \in ReadingTables
  /\ umbrales \in [IndicatorSet -> ParseResults]
  /\ escenario_id = "riesgo_moderado"
  /\ escenario = ESCENARIOS[escenario_id]
  /\ contexto_escenario = None
  /\ arg = <<>>
  /\ NoOutputs

\* A scoring run from the point where the module's loader has returned, over
\* every small threshold table.
InitTabla ==
  /\ pc = "loaded"
  /\ \E names \in NameListsTabla :
        strategies_config =
          [i \in 1..Len(names) |-> [name |-> names[i], rules |-> TablaEstrategias[names[i]]]]
  /\ indicators = IndicatorNames
  /\ indicator_values \in ReadingTables
  /\ umbrales = <<>>
  /\ indicator_thresholds \in TablasDeUmbrales
  /\ escenario_id = "riesgo_moderado"
  /\ escenario = ESCENARIOS[escenario_id]
  /\ contexto_escenario = None
  /\ arg = <<>>
  /\ strategy_factors = <<>>
  /\ nivel_riesgo = None
  /\ indicator_matrix = <<>>
  /\ factor_scores_raw = <<>>
  /\ mcda_matrix = <<>>
  /\ score = <<>>
  /\ rank_ = <<>>
  /\ scores_ajustados = <<>>
  /\ ranks_ajustados = <<>>
  /\ indicadores_criticos = None
  /\ indicadores_normales = None
  /\ ret = <<>>

NoRun ==
  /\ strategies_config = <<>>
  /\ indicators = <<>>
  /\ indicator_values = <<>>
  /\ umbrales = <<>>
  /\ escenario_id = ""
  /\ escenario = <<>>
  /\ contexto_escenario = None

\* A direct call of normalize_strategy_weights, followed by a second one.
InitPesos ==
  /\ pc = "call_weights"
  /\ \E r1 \in RuleListsPesos, r2 \in SegundaEstrategiaPesos, modo \in ModosDeSuma :
        arg = [strategies_config |-> << [name |-> "adulticidas", rules |-> r1],
                                        [name |-> "promover", rules |-> r2] >>,
               suma |-> modo]
  /\ NoRun
  /\ NoOutputs

\* A direct call of parse_threshold.
InitParse ==
  /\ pc = "call_parse"
  /\ \E celda \in CeldasUmbral : arg = [umbral_str |-> celda]
  /\ NoRun
  /\ NoOutputs

\* main() run on a table of strategies, with each of the two files present or not.
InitMain ==
  /\ pc = "rows"
  /\ \E names \in NameListsMain, valores \in ArchivosDeValores :
       \E factores \in ArchivosDeFactores(names) :
          /\ strategies_config =
               [i \in 1..Len(names) |->
                  [name |-> names[i], rules |-> TablaEstrategias[names[i]]]]
          /\ arg = [strategies_config |-> strategies_config,
                    indicator_values |-> valores, strategy_factors |-> factores]
  /\ indicators = IndicatorNames
  /\ indicator_values = <<>>
  /\ umbrales \in UmbralesEscenario
  /\ escenario_id = ""
  /\ escenario = <<>>
  /\ contexto_escenario = None
  /\ NoOutputs

\* A direct call of aplicar_multiplicador_urgencia.
InitUrgencia ==
  /\ pc = "call_urgencia"
  /\ \E names \in NameListsLlamada, nivel \in NivelesLlamada, contexto \in ContextosLlamada :
       \E scores \in [1..Len(names) -> ScorePool] :
          arg = [scores |-> scores, strategy_names |-> names,
                 nivel_riesgo |-> nivel, contexto_escenario |-> contexto]
  /\ NoRun
  /\ NoOutputs

\* A direct call of normalize_criterion.
InitNormalize ==
  /\ pc = "call_normalize"
  /\ \E n \in 0..MaxStrategies, maximize \in BOOLEAN :
       \E values \in [1..n -> ValuePool] :
          arg = [values |-> values, maximize |-> maximize]
  /\ NoRun
  /\ NoOutputs

\* A direct call of build_mcda_matrix(..., normalize=True).
InitMcda ==
  /\ pc = "call_mcda"
  /\ \E names \in NameListsMcda, b \in ContextTableIds, g \in GeneralTableIds :
       \E m \in MatricesDeUnaColumna(Len(names)), sf \in StrategyFactorsTables(names) :
          arg = [indicator_matrix |-> m, strategy_names |-> names, strategy_factors |-> sf,
                 factor_values_by_strategy |-> ContextTable(b),
                 factor_values_general |-> GeneralTable(g)]
  /\ NoRun
  /\ NoOutputs

\* A direct call of get_tipo_respuesta.
InitTipo ==
  /\ pc = "call_tipo"
  /\ \E s \in NombresTipo : arg = [estrategia |-> s]
  /\ NoRun
  /\ NoOutputs

\* A direct call of aplicar_multiplicador_urgencia with equal base scores, under
\* every severity level and every situational context.
InitContexto ==
  /\ pc = "call_urgencia"
  /\ \E names \in NameListsContexto, nivel \in NivelesValidos, contexto \in ContextosTodos :
        arg = [scores |-> [i \in 1..Len(names) |-> One], strategy_names |-> names,
               nivel_riesgo |-> nivel, contexto_escenario |-> contexto]
  /\ NoRun
  /\ NoOutputs

\* A direct call of check_condition.
InitCondicion ==
  /\ pc = "call_condition"
  /\ \E v \in {Some(x) : x \in ValoresCondicion} \cup {None},
        op \in OperadoresLlamada, t \in ValoresCondicion :
        arg = [value |-> v, op |-> op, threshold |-> t]
  /\ NoRun
  /\ NoOutputs

----------------------------------------------------------------------------
(* Steps of ejecutar_escenario *)

\* load_strategies_from_xlsx: the threshold table from the parse results.
LoadStrategies ==
  /\ pc = "rows"
  /\ indicator_thresholds' = LoadThresholds(umbrales)
  /\ pc' = "loaded"
  /\ UNCHANGED <<strategies_config, indicators, indicator_values, umbrales, escenario_id,
                 escenario, strategy_factors, nivel_riesgo, contexto_escenario,
                 indicator_matrix, factor_scores_raw, mcda_matrix, score, rank_, scores_ajustados,
                 ranks_ajustados, arg, ret,
                 indicadores_criticos, indicadores_normales>>

NormalizeStrategyWeights ==
  /\ pc = "loaded"
  /\ strategies_config' = normalize_strategy_weights(strategies_config)
  /\ pc' = "normalized"
  /\ UNCHANGED <<indicators, indicator_values, umbrales, indicator_thresholds, escenario_id,
                 escenario, strategy_factors, nivel_riesgo, contexto_escenario,
                 indicator_matrix, factor_scores_raw, mcda_matrix, score, rank_, scores_ajustados,
                 ranks_ajustados, arg, ret,
                 indicadores_criticos, indicadores_normales>>

\* strategy_factors[est] = escenario["factores_estrategia"].copy() for every strategy
PrepararFactores ==
  /\ pc = "normalized"
  /\ strategy_factors' =
       [i \in 1..Len(strategies_config) |->
          [k |-> strategies_config[i].name, v |-> escenario.factores_estrategia]]
  /\ pc' = "factors"
  /\ UNCHANGED <<strategies_config, indicators, indicator_values, umbrales,
                 indicator_thresholds, escenario_id, escenario, nivel_riesgo,
                 contexto_escenario, indicator_matrix, factor_scores_raw, mcda_matrix, score, rank_,
                 scores_ajustados, ranks_ajustados, arg, ret,
                 indicadores_criticos, indicadores_normales>>

BuildIndicatorMatrix ==
  /\ pc = "factors"
  /\ IF build_indicator_matrix_raises(indicator_values, strategies_config, indicators,
                                      indicator_thresholds)
     THEN /\ pc' = "error"
          /\ UNCHANGED indicator_matrix
     ELSE /\ pc' = "matrix"
          /\ indicator_matrix' = build_indicator_matrix(indicator_values, strategies_config,
                                                        indicators, indicator_thresholds)
  /\ UNCHANGED <<strategies_config, indicators, indicator_values, umbrales,
                 indicator_thresholds, escenario_id, escenario, strategy_factors,
                 nivel_riesgo, contexto_escenario, factor_scores_raw, mcda_matrix, score, rank_,
                 scores_ajustados, ranks_ajustados, arg, ret,
                 indicadores_criticos, indicadores_normales>>

BuildMcdaMatrix ==
  /\ pc = "matrix"
  /\ factor_scores_raw' =
       FactorScores(StrategyNames(strategies_config), strategy_factors,
                    ContextValuesPorNombre, FACTOR_VALUES_GENERAL)
  /\ mcda_matrix' = McdaMatrix(Compliance(indicator_matrix), factor_scores_raw')
  /\ pc' = "mcda"
  /\ UNCHANGED <<strategies_config, indicators, indicator_values, umbrales,
                 indicator_thresholds, escenario_id, escenario, strategy_factors,
                 nivel_riesgo, contexto_escenario, indicator_matrix, score, rank_,
                 scores_ajustados, ranks_ajustados, arg, ret,
                 indicadores_criticos, indicadores_normales>>

\* dm = skc.mkdm(...); result = WeightedSumModel().evaluate(dm)
EvaluarModelo ==
  /\ pc = "mcda"
  /\ score' = WeightedSumScore(mcda_matrix, CriterionWeights)
  /\ rank_' = DenseRank(WeightedSumScore(mcda_matrix, CriterionWeights))
  /\ pc' = "evaluated"
  /\ UNCHANGED <<strategies_config, indicators, indicator_values, umbrales,
                 indicator_thresholds, escenario_id, escenario, strategy_factors,
                 nivel_riesgo, contexto_escenario, indicator_matrix, factor_scores_raw, mcda_matrix,
                 scores_ajustados, ranks_ajustados, arg, ret,
                 indicadores_criticos, indicadores_normales>>

AplicarMultiplicador ==
  /\ pc = "evaluated"
  /\ nivel_riesgo' = Some(NivelRiesgo(escenario_id, escenario))
  /\ scores_ajustados' =
       aplicar_multiplicador_urgencia(score, StrategyNames(strategies_config),
                                      NivelRiesgo(escenario_id, escenario), contexto_escenario)
  /\ pc' = "ajustado"
  /\ UNCHANGED <<strategies_config, indicators, indicator_values, umbrales,
                 indicator_thresholds, escenario_id, escenario, strategy_factors,
                 contexto_escenario, indicator_matrix, factor_scores_raw, mcda_matrix, score, rank_,
                 ranks_ajustados, arg, ret,
                 indicadores_criticos, indicadores_normales>>

\* Re-rank on the adjusted scores: np.argsort, reversed, ranks 1..N by position.
ReRank ==
  /\ pc = "ajustado"
  /\ \E p \in ArgSorts(scores_ajustados) : ranks_ajustados' = RanksFromArgSort(p)
  /\ pc' = "ranked"
  /\ UNCHANGED <<strategies_config, indicators, indicator_values, umbrales,
                 indicator_thresholds, escenario_id, escenario, strategy_factors,
                 nivel_riesgo, contexto_escenario, indicator_matrix, factor_scores_raw, mcda_matrix, score,
                 rank_, scores_ajustados, arg, ret,
                 indicadores_criticos, indicadores_normales>>

\* The indicators counted and the result returned; a raising check_condition ends
\* the run without a result.
ContarYDevolver ==
  /\ pc = "ranked"
  /\ LET conteo == ContarIndicadores(indicators, indicator_values, indicator_thresholds)
     IN  IF conteo.raised
         THEN /\ pc' = "error"
              /\ UNCHANGED <<indicadores_criticos, indicadores_normales>>
         ELSE /\ pc' = "done"
              /\ indicadores_criticos' = Some(conteo.ret.criticos)
              /\ indicadores_normales' = Some(conteo.ret.normales)
  /\ UNCHANGED <<strategies_config, indicators, indicator_values, umbrales,
                 indicator_thresholds, escenario_id, escenario, strategy_factors,
                 nivel_riesgo, contexto_escenario, indicator_matrix, factor_scores_raw,
                 mcda_matrix, score, rank_, scores_ajustados, ranks_ajustados, arg, ret>>

----------------------------------------------------------------------------
(* Direct calls *)

CallAplicarMultiplicador ==
  /\ pc = "call_urgencia"
  /\ ret' = aplicar_multiplicador_urgencia(arg.scores, arg.strategy_names,
                                           arg.nivel_riesgo, arg.contexto_escenario)
  /\ pc' = "returned_urgencia"
  /\ UNCHANGED <<strategies_config, indicators, indicator_values, umbrales,
                 indicator_thresholds, escenario_id, escenario, strategy_factors,
                 nivel_riesgo, contexto_escenario, indicator_matrix, factor_scores_raw, mcda_matrix, score,
                 rank_, scores_ajustados, ranks_ajustados, arg,
                 indicadores_criticos, indicadores_normales>>

CallNormalizeCriterion ==
  /\ pc = "call_normalize"
  /\ ret' = normalize_criterion(arg.values, arg.maximize)
  /\ pc' = "returned_normalize"
  /\ UNCHANGED <<strategies_config, indicators, indicator_values, umbrales,
                 indicator_thresholds, escenario_id, escenario, strategy_factors,
                 nivel_riesgo, contexto_escenario, indicator_matrix, factor_scores_raw, mcda_matrix, score,
                 rank_, scores_ajustados, ranks_ajustados, arg,
                 indicadores_criticos, indicadores_normales>>

\* The variables of a scoring run, which a direct call leaves alone.
RunVars ==
  <<strategies_config, indicators, indicator_values, umbrales, indicator_thresholds,
    escenario_id, escenario, strategy_factors, nivel_riesgo, contexto_escenario,
    indicator_matrix, factor_scores_raw, mcda_matrix, score, rank_, scores_ajustados,
    ranks_ajustados, indicadores_criticos, indicadores_normales>>

CallBuildMcdaMatrix ==
  /\ pc = "call_mcda"
  /\ ret' = build_mcda_matrix(
               arg.indicator_matrix, arg.strategy_names, arg.strategy_factors,
               [n \in NameIds |-> ContextValuesFor(n, arg.factor_values_by_strategy)],
               arg.factor_values_general)
  /\ pc' = "returned_mcda"
  /\ UNCHANGED <<RunVars, arg>>

CallGetTipoRespuesta ==
  /\ pc = "call_tipo"
  /\ ret' = get_tipo_respuesta(arg.estrategia)
  /\ pc' = "returned_tipo"
  /\ UNCHANGED <<RunVars, arg>>

CallCheckCondition ==
  /\ pc = "call_condition"
  /\ ret' = check_condition(arg.value, arg.op, arg.threshold)
  /\ pc' = "returned_condition"
  /\ UNCHANGED <<RunVars, arg>>

\* normalize_strategy_weights(strategies_config): the dict is rewritten in place;
\* the model keeps the argument in arg and the rewritten dict in ret.
CallNormalizeStrategyWeights ==
  /\ pc = "call_weights"
  /\ ret' = [una |-> normalize_strategy_weights_fl(arg.strategies_config, arg.suma)]
  /\ pc' = "weights_once"
  /\ UNCHANGED <<RunVars, arg>>

\* normalize_strategy_weights called again on the dict it has already rewritten.
CallNormalizeStrategyWeightsOtraVez ==
  /\ pc = "weights_once"
  /\ ret' = [una |-> ret.una, dos |-> normalize_strategy_weights_fl(ret.una, arg.suma)]
  /\ pc' = "weights_twice"
  /\ UNCHANGED <<RunVars, arg>>

CallParseThreshold ==
  /\ pc = "call_parse"
  /\ ret' = parse_threshold(arg.umbral_str)
  /\ pc' = "returned_parse"
  /\ UNCHANGED <<RunVars, arg>>

\* main(): one strategy's factors when the factor file was read: its own entry, else
\* a copy of the first partially matching entry, else generated ones.
FactoresDeMain(est, archivo) ==
  IF IndexOfKey(archivo, est) # 0 THEN {archivo[IndexOfKey(archivo, est)].v}
  ELSE IF FuzzyFactorKey(est, archivo) # 0 THEN {archivo[FuzzyFactorKey(est, archivo)].v}
  ELSE FactoresGenerados

\* main(): the indicator values and the strategy factors, read from their files or,
\* when a file is missing or unreadable, generated.
MainEntradas ==
  /\ pc = "normalized"
  /\ escenario_id = ""
  /\ IF arg.indicator_values # None
     THEN indicator_values' = arg.indicator_values[1]
     ELSE \E v \in [IndicatorSet ->
                      UNION {ValoresGenerados(indicator_thresholds, ind) : ind \in IndicatorSet}] :
            /\ \A ind \in IndicatorSet : v[ind] \in ValoresGenerados(indicator_thresholds, ind)
            /\ indicator_values' = v
  /\ LET names == StrategyNames(strategies_config)
     IN  \E fs \in [1..Len(names) -> FactoresGenerados \cup {FactoresDeArchivo}] :
            /\ \A i \in 1..Len(names) :
                 fs[i] \in (IF arg.strategy_factors = None THEN FactoresGenerados
                            ELSE FactoresDeMain(names[i], arg.strategy_factors[1]))
            /\ strategy_factors' = [i \in 1..Len(names) |-> [k |-> names[i], v |-> fs[i]]]
  /\ pc' = "factors"
  /\ UNCHANGED <<strategies_config, indicators, umbrales, indicator_thresholds, escenario_id,
                 escenario, nivel_riesgo, contexto_escenario, indicator_matrix,
                 factor_scores_raw, mcda_matrix, score, rank_, scores_ajustados,
                 ranks_ajustados, indicadores_criticos, indicadores_normales, arg, ret>>

\* main() has returned; it is called again with the same arguments.  ret keeps the
\* scores and ranks of the first call.
MainOtraVez ==
  /\ pc = "evaluated"
  /\ escenario_id = ""
  /\ ret = <<>>
  /\ ret' = [score |-> score, rank_ |-> rank_]
  /\ strategies_config' = arg.strategies_config
  /\ indicator_values' = <<>>
  /\ indicator_thresholds' = <<>>
  /\ strategy_factors' = <<>>
  /\ indicator_matrix' = <<>>
  /\ factor_scores_raw' = <<>>
  /\ mcda_matrix' = <<>>
  /\ score' = <<>>
  /\ rank_' = <<>>
  /\ pc' = "rows"
  /\ UNCHANGED <<indicators, umbrales, escenario_id, escenario, nivel_riesgo,
                 contexto_escenario, scores_ajustados, ranks_ajustados,
                 indicadores_criticos, indicadores_normales, arg>>

\* The second call of main() has returned.
MainFin ==
  /\ pc = "evaluated"
  /\ escenario_id = ""
  /\ ret # <<>>
  /\ pc' = "main_done"
  /\ UNCHANGED <<RunVars, arg, ret>>

----------------------------------------------------------------------------
(* Specifications *)

Next ==
  \/ LoadStrategies
  \/ NormalizeStrategyWeights
  \/ PrepararFactores
  \/ BuildIndicatorMatrix
  \/ BuildMcdaMatrix
  \/ EvaluarModelo
  \/ AplicarMultiplicador
  \/ ReRank
  \/ ContarYDevolver

\* A scoring run.
Spec == Init /\ [][Next]_vars

NextMatrix ==
  \/ LoadStrategies
  \/ NormalizeStrategyWeights
  \/ PrepararFactores
  \/ BuildIndicatorMatrix

\* The compliance matrix over every small input.
SpecMatrix == InitMatrix /\ [][NextMatrix]_vars

NextTabla ==
  \/ NormalizeStrategyWeights
  \/ PrepararFactores
  \/ BuildIndicatorMatrix
  \/ BuildMcdaMatrix
  \/ EvaluarModelo
  \/ AplicarMultiplicador
  \/ ReRank
  \/ ContarYDevolver

\* A scoring run over threshold tables with supported and unsupported operators.
SpecTabla == InitTabla /\ [][NextTabla]_vars

\* Scoring runs together with direct calls of build_mcda_matrix.
InitFaltantes == Init \/ InitMcda
NextFaltantes == Next \/ CallBuildMcdaMatrix
SpecFaltantes == InitFaltantes /\ [][NextFaltantes]_vars

\* normalize_strategy_weights called twice on small strategy tables.
NextPesos == CallNormalizeStrategyWeights \/ CallNormalizeStrategyWeightsOtraVez
SpecPesos == InitPesos /\ [][NextPesos]_vars

\* parse_threshold called on every short text and on the example texts.
SpecParse == InitParse /\ [][CallParseThreshold]_vars

NextMain ==
  \/ LoadStrategies
  \/ NormalizeStrategyWeights
  \/ MainEntradas
  \/ BuildIndicatorMatrix
  \/ BuildMcdaMatrix
  \/ EvaluarModelo
  \/ MainOtraVez
  \/ MainFin

\* main() called twice with the same arguments.
SpecMain == InitMain /\ [][NextMain]_vars

\* aplicar_multiplicador_urgencia called on every small score vector.
SpecUrgencia == InitUrgencia /\ [][CallAplicarMultiplicador]_vars

\* normalize_criterion called on every small vector.
SpecNormalize == InitNormalize /\ [][CallNormalizeCriterion]_vars

\* normalize_criterion called directly and from within scoring runs.
InitNormalizeRun == Init \/ InitNormalize
NextNormalizeRun == Next \/ CallNormalizeCriterion
SpecNormalizeRun == InitNormalizeRun /\ [][NextNormalizeRun]_vars

\* build_mcda_matrix called on small tables.
SpecMcda == InitMcda /\ [][CallBuildMcdaMatrix]_vars

\* get_tipo_respuesta called on taxonomy keys and their variants.
SpecTipo == InitTipo /\ [][CallGetTipoRespuesta]_vars

\* aplicar_multiplicador_urgencia called under every situational context.
SpecContexto == InitContexto /\ [][CallAplicarMultiplicador]_vars

\* check_condition called on small readings, thresholds and operators.
SpecCondicion == InitCondicion /\ [][CallCheckCondition]_vars

----------------------------------------------------------------------------
(* Properties of the compliance matrix (checked under SpecMatrix) *)

Linked(rules, ind) == \E j \in 1..Len(rules) : rules[j].indicator = ind

\* The weight the strategy's rules give the indicator (each indicator occurs once).
PesoDe(rules, ind) == rules[CHOOSE j \in 1..Len(rules) : rules[j].indicator = ind].weight

HasReading(ind) == ind \in DOMAIN indicator_values
HasThreshold(ind) == ind \in DOMAIN indicator_thresholds

\* The reading of the indicator is in the alarming region of its threshold.
Alarming(ind) ==
  check_condition(Some(indicator_values[ind]), indicator_thresholds[ind].op,
                  indicator_thresholds[ind].threshold).ret

\* C1: every cell of the compliance matrix is 0 when the strategy does not reference
\* the indicator or the indicator has no reading; with a reading and a parsed
\* threshold it is the strategy's weight for the indicator if check_condition holds
\* and 0 otherwise; a strategy with no linked indicators has row sum 0.
C1_CeldasDeCumplimiento ==
  pc = "matrix" =>
    /\ \A i \in 1..Len(strategies_config), c \in 1..Len(indicators) :
         LET rules == strategies_config[i].rules
             ind == indicators[c]
             cell == indicator_matrix[i][c]
         IN  /\ (~Linked(rules, ind) \/ ~HasReading(ind)) => cell = Zero
             /\ (Linked(rules, ind) /\ HasReading(ind) /\ HasThreshold(ind)) =>
                  cell = IF Alarming(ind) THEN PesoDe(rules, ind) ELSE Zero
    /\ \A i \in 1..Len(strategies_config) :
         strategies_config[i].rules = <<>> => RSum(indicator_matrix[i]) = Zero

\* A matrix with an activated cell, a cell kept at 0 by its threshold although its
\* weight is positive, and a strategy with no linked indicators.
C1_Witness ==
  /\ pc = "matrix"
  /\ \E i \in 1..Len(strategies_config), c \in 1..Len(indicators) :
       /\ Linked(strategies_config[i].rules, indicators[c])
       /\ HasReading(indicators[c]) /\ HasThreshold(indicators[c])
       /\ Alarming(indicators[c])
       /\ indicator_matrix[i][c] # Zero
  /\ \E i \in 1..Len(strategies_config), c \in 1..Len(indicators) :
       /\ Linked(strategies_config[i].rules, indicators[c])
       /\ HasReading(indicators[c]) /\ HasThreshold(indicators[c])
       /\ ~Alarming(indicators[c])
       /\ PesoDe(strategies_config[i].rules, indicators[c]) # Zero
       /\ indicator_matrix[i][c] = Zero
  /\ \E i \in 1..Len(strategies_config) : strategies_config[i].rules = <<>>

\* C2: when a strategy references an indicator that has a reading but no entry in
\* the threshold table, the cell is the strategy's weight for it, whatever the reading.
C2_SinUmbralPesoCompleto ==
  pc = "matrix" =>
    \A i \in 1..Len(strategies_config), c \in 1..Len(indicators) :
      LET rules == strategies_config[i].rules
          ind == indicators[c]
      IN  (Linked(rules, ind) /\ HasReading(ind) /\ ~HasThreshold(ind)) =>
            indicator_matrix[i][c] = PesoDe(rules, ind)

\* A thresholdless indicator with a reading in a cell of positive weight.
C2_Witness ==
  /\ pc = "matrix"
  /\ \E i \in 1..Len(strategies_config), c \in 1..Len(indicators) :
       /\ Linked(strategies_config[i].rules, indicators[c])
       /\ HasReading(indicators[c]) /\ ~HasThreshold(indicators[c])
       /\ indicator_matrix[i][c] # Zero

\* C3: an indicator whose threshold text did not parse (parse result (None, None))
\* never contributes to compliance: its whole column of the matrix is 0.
C3_SinUmbralNoContribuye ==
  pc = "matrix" =>
    \A c \in 1..Len(indicators) :
      umbrales[indicators[c]] = <<None, None>> =>
        \A i \in 1..Len(strategies_config) : indicator_matrix[i][c] = Zero

----------------------------------------------------------------------------
(* generar_mapas_variantes.py: the base scenarios *)

\* Indicator values and thresholds of this section are counted in hundredths, so
\* that round(., 2) gives a whole number and check_condition compares like with
\* like; a value carries whether it is a Python int.
Centesimas(n) == 100 * n

\* The indicators of the section: one of INTEGER_INDICATORS that prioridad_alta
\* lists, one that neither lists, one of INTEGER_INDICATORS that prioridad_alta
\* does not list.
IndicadoresBase == {"Muertes probables", "Letalidad", "Tipo de brote"}

INTEGER_INDICATORS == {"Muertes probables", "Serotipos circulantes", "Tipo de brote"}

LEVELS == <<"bajo_riesgo", "riesgo_moderado", "alto_riesgo", "emergencia">>

PORCENTAJE_CRITICOS_OBJETIVO ==
  [bajo_riesgo |-> Rat(10, 100), riesgo_moderado |-> Rat(35, 100),
   alto_riesgo |-> Rat(60, 100), emergencia |-> Rat(90, 100)]

MULT_CRITICO_GT == Rat(13, 10)
MULT_NO_CRITICO_GT == Rat(7, 10)
MULT_CRITICO_LT == Rat(7, 10)
MULT_NO_CRITICO_LT == Rat(13, 10)

\* The entries of prioridad_alta that the indicators above can match, in its order.
prioridad_alta == <<"Tasa de incidencia semanal", "Muertes probables", "Serotipos circulantes">>

\* The indicators that the scenarios of ESCENARIOS carry, in this section: those
\* above and two more that the variants override.
IndicadoresDeEscenario ==
  IndicadoresBase \cup {"Tasa de incidencia semanal", "Personal en terreno"}

\* Their values at the four levels, in the order of LEVELS: ints for 'Muertes
\* probables', floats for the others.
ValoresPorNivel(i) ==
  IF i = "Muertes probables" THEN <<Centesimas(0), Centesimas(0), Centesimas(1), Centesimas(4)>>
  ELSE IF i = "Letalidad" THEN <<1, 3, 6, 12>>
  ELSE IF i = "Tipo de brote"
       THEN <<Centesimas(2), Centesimas(4), Centesimas(7), Centesimas(12)>>
  ELSE IF i = "Tasa de incidencia semanal"
       THEN <<Centesimas(8), Centesimas(22), Centesimas(45), Centesimas(85)>>
  ELSE <<Centesimas(88), Centesimas(76), Centesimas(76), Centesimas(48)>>

\* ESCENARIOS with the indicator values of the four levels.
IndicadoresDeNivel ==
  [level \in DOMAIN ESCENARIOS |->
     [i \in IndicadoresDeEscenario |->
        [entero |-> (i = "Muertes probables"),
         v |-> ValoresPorNivel(i)[ESCENARIOS[level].nivel_alerta]]]]

EscenariosGlobales ==
  [level \in DOMAIN ESCENARIOS |->
     [nivel_alerta |-> ESCENARIOS[level].nivel_alerta,
      indicadores |-> IndicadoresDeNivel[level],
      factores_estrategia |-> ESCENARIOS[level].factores_estrategia]]

\* int(round(value)) for an indicator of INTEGER_INDICATORS or an int base value,
\* else round(float(value), 2); round() rounds halves to even.
coerce_value(indicator, value, base_value) ==
  IF indicator \in INTEGER_INDICATORS \/ (base_value # None /\ base_value[1].entero)
  THEN [entero |-> TRUE, v |-> Centesimas(RoundHalfEven(RDiv(value, Rat(100, 1))))]
  ELSE [entero |-> FALSE, v |-> RoundHalfEven(value)]

\* sort_key: the position in prioridad_alta, or past its end (plus random.random()).
EnPrioridadAlta(ind) == \E i \in 1..Len(prioridad_alta) : prioridad_alta[i] = ind

SortKey(ind) ==
  IF EnPrioridadAlta(ind)
  THEN (CHOOSE i \in 1..Len(prioridad_alta) : prioridad_alta[i] = ind) - 1
  ELSE Len(prioridad_alta)

\* indicadores_ordenados after the sort: the listed indicators by position, the
\* others after them in the order of their random draws.
OrdenesDeIndicadores(thresholds) ==
  LET n == Cardinality(DOMAIN thresholds)
  IN  {o \in [1..n -> DOMAIN thresholds] :
         /\ \A a, b \in 1..n : a # b => o[a] # o[b]
         /\ \A a, b \in 1..n : a < b => SortKey(o[a]) <= SortKey(o[b])}

\* n_criticos = int(total_indicadores * pct_criticos)
NCriticos(total, level_id) ==
  LET p == RMul(Rat(total, 1), IF level_id \in DOMAIN PORCENTAJE_CRITICOS_OBJETIVO
                               THEN PORCENTAJE_CRITICOS_OBJETIVO[level_id]
                               ELSE Rat(1, 2))
  IN  p.num \div p.den

\* set(indicadores_ordenados[:n_criticos])
CriticosDeNivel(orden, level_id) ==
  {orden[i] : i \in 1..NCriticos(Len(orden), level_id)}

\* The value for an indicator that has to cross its threshold, or has not to.
ValorParaUmbral(op, threshold, es_critico) ==
  LET t == Rat(threshold, 1)
      val == IF op \in {">", ">="}
             THEN (IF es_critico THEN RMul(t, MULT_CRITICO_GT) ELSE RMul(t, MULT_NO_CRITICO_GT))
             ELSE IF op \in {"<", "<="}
             THEN (IF es_critico THEN RMul(t, MULT_CRITICO_LT) ELSE RMul(t, MULT_NO_CRITICO_LT))
             ELSE t
  IN  IF RLt(val, Zero) THEN Zero ELSE val

\* The indicadores of one level after the loop over thresholds.items().
IndicadoresConUmbrales(thresholds, indicadores, criticos) ==
  [ind \in DOMAIN indicadores \cup DOMAIN thresholds |->
     IF ind \in DOMAIN thresholds
     THEN coerce_value(ind,
                       ValorParaUmbral(thresholds[ind].op, thresholds[ind].threshold,
                                       ind \in criticos),
                       IF ind \in DOMAIN indicadores THEN Some(indicadores[ind]) ELSE None)
     ELSE indicadores[ind]]

\* construir_escenarios_base(thresholds, escenarios_base) under one outcome of the sort.
construir_escenarios_base(thresholds, escenarios_base, orden) ==
  [level_id \in DOMAIN escenarios_base |->
     [escenarios_base[level_id] EXCEPT
        !.indicadores = IndicadoresConUmbrales(thresholds, @,
                                               CriticosDeNivel(orden, level_id))]]

\* Thresholds as load_strategies_from_xlsx returns them, in hundredths.
UmbralesBase == {0, 1, Centesimas(1), Centesimas(2)}

ThresholdsBase ==
  UNION {[S -> [op : SupportedOps, threshold : UmbralesBase]] : S \in SUBSET IndicadoresBase}

\* A call of construir_escenarios_base(thresholds, ESCENARIOS).
InitBase ==
  /\ pc = "call_base"
  /\ \E thresholds \in ThresholdsBase :
       arg = [thresholds |-> thresholds, escenarios_base |-> EscenariosGlobales]
  /\ NoRun
  /\ NoOutputs

CallConstruirEscenariosBase ==
  /\ pc = "call_base"
  /\ \E orden \in OrdenesDeIndicadores(arg.thresholds) :
       ret' = [escenarios |-> construir_escenarios_base(arg.thresholds,
                                                        arg.escenarios_base, orden),
               indicadores_ordenados |-> orden]
  /\ pc' = "returned_base"
  /\ UNCHANGED <<RunVars, arg>>

SpecBase == InitBase /\ [][CallConstruirEscenariosBase]_vars

----------------------------------------------------------------------------

(* generar_mapas_variantes.py: the variants *)

\* x.copy(): a new outer dict whose level dicts are those of x.
copia_superficial(x) == [obj |-> x, compartido |-> TRUE]

\* deepcopy(x): a copy that shares no dict with x, so that a write through the copy
\* does not reach x.
deepcopy(x) == [obj |-> x, compartido |-> FALSE]

\* What stays in the copied object after the copy was changed to `cambiado`.
OriginalTrasEscribir(original, copia, cambiado) ==
  IF copia.compartido THEN cambiado ELSE original

\* Three of the variants of construir_variantes(), in its order, with those of
\* their overrides that name the indicators above, and one for an indicator that
\* the scenarios do not carry; mult(f) is held as the factor f.
Variantes ==
  << [id |-> "intermitencia_agua",
      indicator_overrides |->
        [riesgo_moderado |-> [i \in {"Cobertura de agua potable"} |-> Rat(92, 100)],
         alto_riesgo |-> [i \in {"Cobertura de agua potable"} |-> Rat(88, 100)],
         emergencia |-> [i \in {"Cobertura de agua potable"} |-> Rat(82, 100)]],
      factor_overrides |-> <<>>],
     [id |-> "movilidad_eventos",
      indicator_overrides |->
        [riesgo_moderado |-> [i \in {"Tasa de incidencia semanal"} |-> Rat(120, 100)],
         alto_riesgo |-> [i \in {"Tasa de incidencia semanal"} |-> Rat(130, 100)],
         emergencia |-> [i \in {"Tasa de incidencia semanal"} |-> Rat(145, 100)]],
      factor_overrides |-> <<>>],
     [id |-> "saturacion_operativa",
      indicator_overrides |->
        [riesgo_moderado |-> [i \in {"Personal en terreno"} |-> Rat(90, 100)],
         alto_riesgo |-> [i \in {"Personal en terreno"} |-> Rat(80, 100)],
         emergencia |-> [i \in {"Personal en terreno"} |-> Rat(70, 100)]],
      factor_overrides |->
        [riesgo_moderado |-> [disponibilidad_recursos |-> 4, costo_operativo |-> 6,
                              tiempo_cobertura |-> 4],
         alto_riesgo |-> [disponibilidad_recursos |-> 3, costo_operativo |-> 7,
                          tiempo_cobertura |-> 3],
         emergencia |-> [disponibilidad_recursos |-> 2, costo_operativo |-> 8,
                         tiempo_cobertura |-> 2]]] >>

\* apply_indicator_overrides: every override of an indicator that the level has
\* replaces its value by coerce_value(indicador, override(current), current).
apply_indicator_overrides(escenarios, overrides) ==
  [level_id \in DOMAIN escenarios |->
     IF level_id \notin DOMAIN overrides THEN escenarios[level_id]
     ELSE [escenarios[level_id] EXCEPT
             !.indicadores =
                [ind \in DOMAIN @ |->
                   IF ind \in DOMAIN overrides[level_id]
                   THEN coerce_value(ind, RMul(Rat(@[ind].v, 1), overrides[level_id][ind]),
                                     Some(@[ind]))
                   ELSE @[ind]]]]

\* apply_factor_overrides: escenarios[level_id]["factores_estrategia"][factor] = value
apply_factor_overrides(escenarios, overrides) ==
  [level_id \in DOMAIN escenarios |->
     IF level_id \notin DOMAIN overrides THEN escenarios[level_id]
     ELSE [escenarios[level_id] EXCEPT
             !.factores_estrategia =
                [f \in DOMAIN @ \cup DOMAIN overrides[level_id] |->
                   IF f \in DOMAIN overrides[level_id] THEN overrides[level_id][f]
                   ELSE @[f]]]]

\* The threshold tables of the runs over the variants.
ThresholdsVariantes ==
  UNION {[S -> [op : {">", "<"}, threshold : {Centesimas(1), Centesimas(20)}]] :
           S \in SUBSET {"Tasa de incidencia semanal", "Letalidad", "Tipo de brote"}}

\* generar_mapas_variantes() is called: ESCENARIOS is the module's global.
InitVariantes ==
  /\ pc = "call_variantes"
  /\ \E thresholds \in ThresholdsVariantes :
       arg = [thresholds |-> thresholds, ESCENARIOS |-> EscenariosGlobales]
  /\ NoRun
  /\ NoOutputs

\* escenarios_base = construir_escenarios_base(thresholds, ESCENARIOS), which works
\* on deepcopy(escenarios_base).
ConstruirBase ==
  /\ pc = "call_variantes"
  /\ \E orden \in OrdenesDeIndicadores(arg.thresholds) :
       LET copia == deepcopy(arg.ESCENARIOS)
           escenarios == construir_escenarios_base(arg.thresholds, copia.obj, orden)
       IN  /\ ret' = [escenarios_base |-> escenarios, escenarios |-> <<>>,
                      indicadores_ordenados |-> orden, procesadas |-> 0]
           /\ arg' = [arg EXCEPT !.ESCENARIOS = OriginalTrasEscribir(@, copia, escenarios)]
  /\ pc' = "base"
  /\ UNCHANGED RunVars

\* One turn of the loop: escenarios = deepcopy(escenarios_base), then the variant's
\* indicator and factor overrides are written into it.
ProcesarVariante ==
  /\ pc \in {"base", "variante"}
  /\ ret.procesadas < Len(Variantes)
  /\ LET variante == Variantes[ret.procesadas + 1]
         copia == deepcopy(ret.escenarios_base)
         escenarios ==
           apply_factor_overrides(
             apply_indicator_overrides(copia.obj, variante.indicator_overrides),
             variante.factor_overrides)
     IN  ret' = [ret EXCEPT !.escenarios = escenarios,
                            !.escenarios_base = OriginalTrasEscribir(@, copia, escenarios),
                            !.procesadas = @ + 1]
  /\ pc' = "variante"
  /\ UNCHANGED <<RunVars, arg>>

NextVariantes == ConstruirBase \/ ProcesarVariante

SpecVariantes == InitVariantes /\ [][NextVariantes]_vars

----------------------------------------------------------------------------

(* A caller's loop over ejecutar_escenario *)

\* Scenario definitions handed over as escenarios_def: two of the level ids (the
\* second with a nivel_alerta that disagrees with its id), ids that are no level with
\* nivel_alerta 1, 2, 3, 4, one without nivel_alerta and one with a nivel_alerta
\* outside 1..4.
EscenariosDeLlamada ==
  [ bajo_riesgo |->
      [nivel_alerta |-> 1,
       indicadores |-> [ind_a |-> 0, ind_b |-> 2],
       factores_estrategia |-> ESCENARIOS.bajo_riesgo.factores_estrategia],
    emergencia |->
      [nivel_alerta |-> 1,
       indicadores |-> [ind_a |-> 2, ind_b |-> 0],
       factores_estrategia |-> ESCENARIOS.emergencia.factores_estrategia],
    comuna_1 |->
      [nivel_alerta |-> 1,
       indicadores |-> [ind_a |-> 0, ind_b |-> 1],
       factores_estrategia |-> ESCENARIOS.bajo_riesgo.factores_estrategia],
    comuna_2 |->
      [nivel_alerta |-> 2,
       indicadores |-> [ind_a |-> 1, ind_b |-> 1],
       factores_estrategia |-> ESCENARIOS.riesgo_moderado.factores_estrategia],
    comuna_3 |->
      [nivel_alerta |-> 3,
       indicadores |-> [ind_a |-> 2, ind_b |-> 1],
       factores_estrategia |-> ESCENARIOS.alto_riesgo.factores_estrategia],
    comuna_4 |->
      [nivel_alerta |-> 4,
       indicadores |-> [ind_a |-> 2, ind_b |-> 0],
       factores_estrategia |-> ESCENARIOS.emergencia.factores_estrategia],
    sin_nivel |->
      [indicadores |-> [ind_a |-> 2],
       factores_estrategia |-> ESCENARIOS.emergencia.factores_estrategia],
    fuera_de_rango |->
      [nivel_alerta |-> 7,
       indicadores |-> [ind_b |-> 0],
       factores_estrategia |-> ESCENARIOS.alto_riesgo.factores_estrategia] ]

\* The escenario_id arguments: the defined ids and one that is not defined.
IdsDeLlamada == DOMAIN EscenariosDeLlamada \cup {"inexistente"}

\* The workbooks xlsx_path can name: their strategies and their threshold column.
ArchivosXlsx ==
  [ reporte |->
      [names |-> <<"adulticidas", "promover">>,
       umbrales |-> [ind_a |-> <<Some(">="), Some(1)>>, ind_b |-> <<Some("<"), Some(1)>>]],
    reporte_piloto |->
      [names |-> <<"larvicidas", "monitorear">>,
       umbrales |-> [ind_a |-> <<Some(">="), Some(1)>>, ind_b |-> <<None, None>>]] ]

\* The rows load_strategies_from_xlsx reads from a workbook, before normalisation.
EstrategiasDeArchivo(xlsx) ==
  [i \in 1..Len(xlsx.names) |->
     [name |-> xlsx.names[i], rules |-> TablaEstrategias[xlsx.names[i]]]]

\* Before the first call of the loop.
InitLlamadas ==
  /\ pc = "call_escenario"
  /\ arg = [escenarios_def |-> EscenariosDeLlamada, xlsx_path |-> "", llamadas |-> 0,
            anteriores |-> {}]
  /\ NoRun
  /\ NoOutputs

\* The scenario definitions as the finished call leaves them: `escenario` and
\* `indicator_values` are the definition's own objects, not copies.
DefinicionesAlVolver ==
  IF pc = "call_escenario" \/ escenario = <<>> THEN arg.escenarios_def
  ELSE [arg.escenarios_def EXCEPT
          ![escenario_id] = [escenario EXCEPT !.indicadores = indicator_values]]

\* What the loop has in hand when it makes its next call.
ArgDeLlamada(path) ==
  [escenarios_def |-> DefinicionesAlVolver, xlsx_path |-> path,
   llamadas |-> arg.llamadas + 1,
   anteriores |-> IF pc = "call_escenario" THEN {}
                  ELSE arg.anteriores \cup {<<escenario_id, arg.xlsx_path, contexto_escenario>>}]

\* The entry with the strategy table kept from the call before, once one is loaded.
EjecutarEscenarioConTablaGuardada ==
  /\ pc \in {"call_escenario", "done", "error"}
  /\ arg.llamadas < MaxLlamadas
  /\ \E id \in IdsDeLlamada, path \in DOMAIN ArchivosXlsx, contexto \in ContextosEscenario :
       /\ arg' = ArgDeLlamada(path)
       /\ escenario_id' = id
       /\ contexto_escenario' = contexto
       /\ IF id \notin DOMAIN DefinicionesAlVolver
          THEN /\ pc' = "error"
               /\ escenario' = <<>>
               /\ strategies_config' = <<>>
               /\ indicators' = <<>>
               /\ umbrales' = <<>>
               /\ indicator_values' = <<>>
          ELSE /\ pc' = "rows"
               /\ escenario' = DefinicionesAlVolver[id]
               /\ strategies_config' = IF strategies_config # <<>> THEN strategies_config
                                       ELSE EstrategiasDeArchivo(ArchivosXlsx[path])
               /\ indicators' = IndicatorNames
               /\ umbrales' = ArchivosXlsx[path].umbrales
               /\ indicator_values' = DefinicionesAlVolver[id].indicadores
  /\ indicator_thresholds' = <<>>
  /\ strategy_factors' = <<>>
  /\ nivel_riesgo' = None
  /\ indicator_matrix' = <<>>
  /\ factor_scores_raw' = <<>>
  /\ mcda_matrix' = <<>>
  /\ score' = <<>>
  /\ rank_' = <<>>
  /\ scores_ajustados' = <<>>
  /\ ranks_ajustados' = <<>>
  /\ indicadores_criticos' = None
  /\ indicadores_normales' = None
  /\ ret' = <<>>

\* The loop calls ejecutar_escenario(escenario_id, mcda_module, xlsx_path,
\* escenarios_def, contexto_escenario): an id that is not defined raises ValueError
\* (which ejecutar_modelo_escenarios catches before it goes on); otherwise the
\* scenario is looked up, the workbook is read anew and every local starts fresh.
EjecutarEscenario ==
  /\ pc \in {"call_escenario", "done", "error"}
  /\ arg.llamadas < MaxLlamadas
  /\ \E id \in IdsDeLlamada, path \in DOMAIN ArchivosXlsx, contexto \in ContextosEscenario :
       /\ arg' = ArgDeLlamada(path)
       /\ escenario_id' = id
       /\ contexto_escenario' = contexto
       /\ IF id \notin DOMAIN DefinicionesAlVolver
          THEN /\ pc' = "error"
               /\ escenario' = <<>>
               /\ strategies_config' = <<>>
               /\ indicators' = <<>>
               /\ umbrales' = <<>>
               /\ indicator_values' = <<>>
          ELSE /\ pc' = "rows"
               /\ escenario' = DefinicionesAlVolver[id]
               /\ strategies_config' = EstrategiasDeArchivo(ArchivosXlsx[path])
               /\ indicators' = IndicatorNames
               /\ umbrales' = ArchivosXlsx[path].umbrales
               /\ indicator_values' = DefinicionesAlVolver[id].indicadores
  /\ indicator_thresholds' = <<>>
  /\ strategy_factors' = <<>>
  /\ nivel_riesgo' = None
  /\ indicator_matrix' = <<>>
  /\ factor_scores_raw' = <<>>
  /\ mcda_matrix' = <<>>
  /\ score' = <<>>
  /\ rank_' = <<>>
  /\ scores_ajustados' = <<>>
  /\ ranks_ajustados' = <<>>
  /\ indicadores_criticos' = None
  /\ indicadores_normales' = None
  /\ ret' = <<>>

NextLlamadas == EjecutarEscenario \/ Next

SpecLlamadas == InitLlamadas /\ [][NextLlamadas]_vars

----------------------------------------------------------------------------

(* Properties of aplicar_multiplicador_urgencia (checked under SpecUrgencia) *)

\* score_i x severity multiplier of the strategy's tag x context multiplier, from
\* the tables, for the arguments of the call.
RawAjustado(i) ==
  RMul(RMul(arg.scores[i],
            Tenths(MULTIPLICADORES_URGENCIA[arg.nivel_riesgo]
                     [TipoPorNombre[arg.strategy_names[i]]])),
       MultCtxDe(arg.strategy_names[i], arg.contexto_escenario))

LlamadaConNivelConocido ==
  pc = "returned_urgencia" /\ arg.nivel_riesgo \in DOMAIN MULTIPLICADORES_URGENCIA

\* C4: for a known severity level the function returns raw_i / max(raw) for every i
\* when max(raw) > 0, so that the best adjusted score is exactly 1, and returns the
\* raw vector, all zero, when max(raw) is 0.
C4_AjusteYDivisionPorMaximo ==
  LlamadaConNivelConocido =>
    LET n == Len(arg.scores)
        IsMax(m) == /\ \E i \in 1..n : RawAjustado(i) = m
                    /\ \A i \in 1..n : RLe(RawAjustado(i), m)
    IN  /\ Len(ret) = n
        /\ \A i \in 1..n :
             IsMax(RawAjustado(i)) =>
               IF RLt(Zero, RawAjustado(i))
               THEN /\ \A j \in 1..n : RMul(ret[j], RawAjustado(i)) = RawAjustado(j)
                    /\ ret[i] = One
               ELSE \A j \in 1..n : ret[j] = RawAjustado(j) /\ ret[j] = Zero

\* A call whose raw maximum is positive and not 1, with a context multiplier other
\* than 1 in play and an entry strictly between 0 and 1 in the result.
C4_Witness ==
  /\ LlamadaConNivelConocido
  /\ \E i \in 1..Len(arg.scores) :
       /\ \A j \in 1..Len(arg.scores) : RLe(RawAjustado(j), RawAjustado(i))
       /\ RLt(One, RawAjustado(i))
  /\ \E i \in 1..Len(arg.scores) :
       MultCtxDe(arg.strategy_names[i], arg.contexto_escenario) # One
  /\ \E i \in 1..Len(ret) : RLt(Zero, ret[i]) /\ RLt(ret[i], One)

\* A call on an all-zero score vector: the result is the all-zero vector.
C4_CasoCero ==
  /\ LlamadaConNivelConocido
  /\ Len(arg.scores) > 1
  /\ \A i \in 1..Len(arg.scores) : arg.scores[i] = Zero /\ ret[i] = Zero

\* A pair (i immediate, j preventive) with the same base score and the same
\* context multiplier in the call.
ParInmediataPreventiva(i, j) ==
  /\ TipoPorNombre[arg.strategy_names[i]] = "inmediata"
  /\ TipoPorNombre[arg.strategy_names[j]] = "preventiva"
  /\ arg.scores[i] = arg.scores[j]
  /\ MultCtxDe(arg.strategy_names[i], arg.contexto_escenario)
       = MultCtxDe(arg.strategy_names[j], arg.contexto_escenario)

\* C5 as stated: for every such pair, at 'emergencia' the immediate strategy's
\* adjusted score is strictly higher, at 'bajo_riesgo' the preventive one's is.
C5_Original ==
  pc = "returned_urgencia" =>
    \A i, j \in 1..Len(arg.scores) :
      ParInmediataPreventiva(i, j) =>
        /\ arg.nivel_riesgo = "emergencia" => RLt(ret[j], ret[i])
        /\ arg.nivel_riesgo = "bajo_riesgo" => RLt(ret[i], ret[j])

\* C5 amended: the same for every such pair whose common base score is strictly
\* positive (with base score 0 both adjusted scores are 0).
C5_InversionConScorePositivo ==
  pc = "returned_urgencia" =>
    \A i, j \in 1..Len(arg.scores) :
      (ParInmediataPreventiva(i, j) /\ RLt(Zero, arg.scores[i])) =>
        /\ arg.nivel_riesgo = "emergencia" => RLt(ret[j], ret[i])
        /\ arg.nivel_riesgo = "bajo_riesgo" => RLt(ret[i], ret[j])

\* A call at 'bajo_riesgo' with such a pair of positive base score, where the
\* preventive strategy comes out strictly above the immediate one.
C5_Witness ==
  /\ pc = "returned_urgencia"
  /\ arg.nivel_riesgo = "bajo_riesgo"
  /\ \E i, j \in 1..Len(arg.scores) :
       /\ ParInmediataPreventiva(i, j)
       /\ RLt(Zero, arg.scores[i])
       /\ RLt(ret[i], ret[j])

\* The same pair at 'emergencia', the immediate strategy strictly above.
C5_WitnessEmergencia ==
  /\ pc = "returned_urgencia"
  /\ arg.nivel_riesgo = "emergencia"
  /\ \E i, j \in 1..Len(arg.scores) :
       /\ ParInmediataPreventiva(i, j)
       /\ RLt(Zero, arg.scores[i])
       /\ RLt(ret[j], ret[i])

----------------------------------------------------------------------------
(* Properties of the rankings of a scoring run (checked under Spec) *)

NumStrategies == Len(strategies_config)

\* C6: after the re-rank the adjusted ranks are a permutation of 1..N, also when
\* adjusted scores tie, and a strictly higher adjusted score has a strictly
\* smaller rank number.
C6_RanksAjustadosPermutacion ==
  pc = "ranked" =>
    /\ Len(ranks_ajustados) = NumStrategies
    /\ {ranks_ajustados[i] : i \in 1..NumStrategies} = 1..NumStrategies
    /\ \A i, j \in 1..NumStrategies :
         RLt(scores_ajustados[j], scores_ajustados[i]) =>
           ranks_ajustados[i] < ranks_ajustados[j]

\* A re-ranked run of three strategies with a tie and a strict difference among
\* the adjusted scores.
C6_Witness ==
  /\ pc = "ranked"
  /\ NumStrategies = 3
  /\ \E i, j \in 1..NumStrategies : i # j /\ scores_ajustados[i] = scores_ajustados[j]
  /\ \E i, j \in 1..NumStrategies : RLt(scores_ajustados[i], scores_ajustados[j])

Evaluated == pc \in {"evaluated", "ajustado", "ranked", "done"}

\* C7: the base ranks of the weighted sum are a permutation of 1..N with no gaps
\* and no duplicates, including when base scores are equal.
C7_RanksBasePermutacion ==
  Evaluated =>
    /\ Len(rank_) = NumStrategies
    /\ {rank_[i] : i \in 1..NumStrategies} = 1..NumStrategies

\* C8: of two strategies with equal scores the one earlier in the input order has
\* the smaller rank, in the base ranking and in the adjusted ranking.
C8_EmpateOrdenDeEntrada ==
  /\ Evaluated =>
       \A i, j \in 1..NumStrategies :
         (i < j /\ score[i] = score[j]) => rank_[i] < rank_[j]
  /\ pc = "ranked" =>
       \A i, j \in 1..NumStrategies :
         (i < j /\ scores_ajustados[i] = scores_ajustados[j]) =>
           ranks_ajustados[i] < ranks_ajustados[j]

\* The adjusted-ranking half of C8 alone.
C8_EmpateAjustado ==
  pc = "ranked" =>
    \A i, j \in 1..NumStrategies :
      (i < j /\ scores_ajustados[i] = scores_ajustados[j]) =>
        ranks_ajustados[i] < ranks_ajustados[j]

\* C9: every base score is half the normalised compliance plus half the normalised
\* factor score; for the matrix A = (1, 1), B = (0, 0) the scores are <<1, 0>> and
\* the base ranks <<1, 2>>.
C9_SumaPonderada ==
  Evaluated =>
    /\ Len(score) = NumStrategies
    /\ \A i \in 1..NumStrategies :
         RAdd(score[i], score[i]) = RAdd(mcda_matrix[i][1], mcda_matrix[i][2])
    /\ mcda_matrix = << <<One, One>>, <<Zero, Zero>> >> =>
         score = <<One, Zero>> /\ rank_ = <<1, 2>>

\* An evaluated run over exactly A = (1, 1), B = (0, 0).
C9_Witness ==
  /\ pc = "evaluated"
  /\ mcda_matrix = << <<One, One>>, <<Zero, Zero>> >>
  /\ score = <<One, Zero>>

----------------------------------------------------------------------------
(* Properties of normalize_criterion (checked under SpecNormalizeRun) *)

InUnit(x) == RLe(Zero, x) /\ RLe(x, One)

\* C10: for a non-empty vector every entry returned by normalize_criterion lies in
\* [0,1]; when the vector is not constant and maximize is true, the minimum maps to
\* 0, the maximum to 1 and the order of the entries is preserved (with maximize
\* false the scale is inverted: minimum to 1, maximum to 0, order reversed); both
\* columns of the MCDA matrix of a run lie in [0,1].
C10_NormalizadoEnUnidad ==
  /\ (pc = "returned_normalize" /\ Len(arg.values) > 0) =>
       LET v == arg.values
           n == Len(v)
           IsMin(i) == \A j \in 1..n : RLe(v[i], v[j])
           IsMax(i) == \A j \in 1..n : RLe(v[j], v[i])
       IN  /\ Len(ret) = n
           /\ \A i \in 1..n : InUnit(ret[i])
           /\ (arg.maximize /\ \E i, j \in 1..n : v[i] # v[j]) =>
                /\ \A i \in 1..n : IsMin(i) => ret[i] = Zero
                /\ \A i \in 1..n : IsMax(i) => ret[i] = One
                /\ \A i, j \in 1..n : RLt(v[i], v[j]) <=> RLt(ret[i], ret[j])
           /\ (~arg.maximize /\ \E i, j \in 1..n : v[i] # v[j]) =>
                /\ \A i \in 1..n : IsMin(i) => ret[i] = One
                /\ \A i \in 1..n : IsMax(i) => ret[i] = Zero
                /\ \A i, j \in 1..n : RLt(v[i], v[j]) <=> RLt(ret[j], ret[i])
  /\ pc \in {"mcda", "evaluated", "ajustado", "ranked", "done"} =>
       /\ Len(mcda_matrix) = NumStrategies
       /\ \A i \in 1..NumStrategies : InUnit(mcda_matrix[i][1]) /\ InUnit(mcda_matrix[i][2])

\* A direct call with maximize on a vector of three different entries, one of
\* them negative: the result has an entry strictly between 0 and 1.
C10_Witness ==
  /\ pc = "returned_normalize"
  /\ arg.maximize
  /\ Len(arg.values) = 3
  /\ \A i, j \in 1..3 : i # j => arg.values[i] # arg.values[j]
  /\ \E i \in 1..3 : RLt(arg.values[i], Zero)
  /\ \E i \in 1..3 : RLt(Zero, ret[i]) /\ RLt(ret[i], One)

\* C11: normalize_criterion applied to a vector of length n whose entries are all
\* identical (all zero included) returns a vector of n ones.
C11_ConstanteDaUnos ==
  (pc = "returned_normalize" /\ \A i, j \in 1..Len(arg.values) : arg.values[i] = arg.values[j]) =>
    /\ Len(ret) = Len(arg.values)
    /\ \A i \in 1..Len(ret) : ret[i] = One

\* A call on three zeros has returned.
C11_Witness ==
  /\ pc = "returned_normalize"
  /\ Len(arg.values) = 3
  /\ \A i \in 1..3 : arg.values[i] = Zero
  /\ Len(ret) = 3

----------------------------------------------------------------------------
(* Properties of the factor score (checked under SpecMcda and Spec) *)

FactorNameSet == {FACTOR_NAMES[n] : n \in 1..Len(FACTOR_NAMES)}

\* The sum of T[f] over the names f of S.
RECURSIVE SumaSobre(_, _)
SumaSobre(S, T) ==
  IF S = {} THEN Zero
  ELSE LET f == CHOOSE x \in S : TRUE IN RAdd(T[f], SumaSobre(S \ {f}, T))

\* d.get(f, 0)
ValorDe(d, f) == IF f \in DOMAIN d THEN d[f] ELSE 0

\* C12: the raw factor score of a strategy is the sum over exactly the 11 names of
\* FACTOR_NAMES of strategy factor value x resolved context value, the resolved value
\* being the general one whenever the general map has the name and otherwise the
\* strategy's own (0 if absent); names outside the 11 do not affect the score.
C12_SumaDeOnceFactores ==
  pc = "returned_mcda" =>
    /\ Len(ret.factor_scores) = Len(arg.strategy_names)
    /\ \A i \in 1..Len(arg.strategy_names) :
         LET factors == FactorsFor(arg.strategy_names[i], arg.strategy_factors)
             propios == ContextValuesFor(arg.strategy_names[i], arg.factor_values_by_strategy)
             general == arg.factor_values_general
             Term == [f \in FactorNameSet |->
                        RMul(Rat(ValorDe(factors, f), 1),
                             Tenths(IF f \in DOMAIN general THEN general[f]
                                    ELSE ValorDe(propios, f)))]
         IN  ret.factor_scores[i] = SumaSobre(FactorNameSet, Term)

\* A call has returned in which a strategy has a nonzero factor whose name is in the
\* general map and, with another value, in the strategy's own map, and a nonzero
\* factor whose name is outside FACTOR_NAMES and has a context value.
C12_Witness ==
  /\ pc = "returned_mcda"
  /\ \E i \in 1..Len(arg.strategy_names) :
       LET factors == FactorsFor(arg.strategy_names[i], arg.strategy_factors)
           propios == ContextValuesFor(arg.strategy_names[i], arg.factor_values_by_strategy)
           general == arg.factor_values_general
       IN  /\ "percepcion_riesgo" \in DOMAIN factors
           /\ "percepcion_riesgo" \in DOMAIN general
           /\ "percepcion_riesgo" \in DOMAIN propios
           /\ general["percepcion_riesgo"] # propios["percepcion_riesgo"]
           /\ "factor_ajeno" \in DOMAIN factors
           /\ "factor_ajeno" \in DOMAIN propios
           /\ ret.factor_scores[i] # Zero

\* The context values of a strategy under the stated lookup policy: the entry of the
\* exact name; else of the first key sharing the first 30 characters; else of the
\* first key containing the name or contained in it; else the "_default" profile.
ContextoSegunPolitica(est, by_strategy) ==
  LET name == Strip(Texto[est])
      exact == IndexOfKey(by_strategy, Texto[est])
      keys == {i \in 1..Len(by_strategy) : by_strategy[i].k # DEFAULT_KEY}
      pref == {i \in keys : Prefix(Strip(by_strategy[i].k), 30) = Prefix(name, 30)}
      cont == {i \in keys : \/ Contains(Strip(by_strategy[i].k), name)
                            \/ Contains(name, Strip(by_strategy[i].k))}
      d == IndexOfKey(by_strategy, DEFAULT_KEY)
      First(S) == CHOOSE i \in S : \A j \in S : i <= j
  IN  IF exact # 0 THEN by_strategy[exact].v
      ELSE IF pref # {} THEN by_strategy[First(pref)].v
      ELSE IF cont # {} THEN by_strategy[First(cont)].v
      ELSE IF d # 0 THEN by_strategy[d].v
      ELSE <<>>

ContextoSegunPoliticaPorNombre ==
  [n \in NameIds |-> ContextoSegunPolitica(n, FACTOR_VALUES_BY_STRATEGY)]

\* C13: a strategy whose exact name is not a key of the per-strategy context map is
\* scored with the context values of the key matching its first 30 characters, else
\* of a key matching by containment, and with the "_default" profile only when no
\* key matches.
C13_ContextoPorCoincidencia ==
  pc \in {"mcda", "evaluated", "ajustado", "ranked", "done"} =>
    \A i \in 1..Len(strategies_config) :
      factor_scores_raw[i] =
        FactorScore(FactorsFor(strategies_config[i].name, strategy_factors),
                    ContextoSegunPoliticaPorNombre[strategies_config[i].name],
                    FACTOR_VALUES_GENERAL)

----------------------------------------------------------------------------
(* Properties of get_tipo_respuesta (checked under SpecTipo) *)

TiposDeRespuesta == {"inmediata", "activa", "preventiva", "coordinacion", "monitoreo"}

EqualsIgnoreCase(a, b) ==
  /\ Len(a) = Len(b)
  /\ \A i \in 1..Len(a) : LowerChar(a[i]) = LowerChar(b[i])

\* The returned tag follows the three-step rule, similar being the taxonomy keys
\* (by position) that match a name which is not itself a key.
TipoSegunRegla(similar) ==
  LET T == ESTRATEGIA_TIPO_RESPUESTA
      exact == {i \in 1..Len(T) : T[i].k = arg.estrategia}
  IN  /\ ret \in TiposDeRespuesta
      /\ exact # {} => \E i \in exact : ret = T[i].v
      /\ (exact = {} /\ similar # {}) => \E i \in similar : ret = T[i].v
      /\ (exact = {} /\ similar = {}) => ret = "activa"

SameFirst50(key, name) == EqualsIgnoreCase(Prefix(key, 50), Prefix(name, 50))

SameFirst50Stripped(key, name) ==
  EqualsIgnoreCase(Prefix(Strip(key), 50), Prefix(Strip(name), 50))

\* C14 as stated: get_tipo_respuesta returns one of the five tags: the tag of the
\* exact-name key; else the tag of a key whose first 50 characters equal the name's
\* first 50 characters case-insensitively; else "activa".
C14_Original ==
  pc = "returned_tipo" =>
    TipoSegunRegla({i \in 1..Len(ESTRATEGIA_TIPO_RESPUESTA) :
                      SameFirst50(ESTRATEGIA_TIPO_RESPUESTA[i].k, arg.estrategia)})

\* C14 amended: as above, the first 50 characters being taken after leading and
\* trailing white space is stripped from the name and from the key.
C14_TipoPorNombre ==
  pc = "returned_tipo" =>
    TipoSegunRegla({i \in 1..Len(ESTRATEGIA_TIPO_RESPUESTA) :
                      SameFirst50Stripped(ESTRATEGIA_TIPO_RESPUESTA[i].k, arg.estrategia)})

\* A call has returned for a name that is no key and differs from a key in case
\* only; the tag is not the default.
C14_Witness ==
  /\ pc = "returned_tipo"
  /\ \A i \in 1..Len(ESTRATEGIA_TIPO_RESPUESTA) : ESTRATEGIA_TIPO_RESPUESTA[i].k # arg.estrategia
  /\ \E i \in 1..Len(ESTRATEGIA_TIPO_RESPUESTA) :
        /\ Lower(ESTRATEGIA_TIPO_RESPUESTA[i].k) = arg.estrategia
        /\ ret = ESTRATEGIA_TIPO_RESPUESTA[i].v
  /\ ret # "activa"

----------------------------------------------------------------------------
(* Properties of the context multiplier (checked under SpecContexto) *)

\* The keyword occurs in the name, case-insensitively.
Ocurre(keyword, name) ==
  \E off \in 0..(Len(name) - Len(keyword)) :
     EqualsIgnoreCase(SubSeq(name, off + 1, off + Len(keyword)), keyword)

\* Keywords of the context table c that occur in the name of n, by position.
PalabrasPresentes ==
  [c \in DOMAIN CONTEXTO_ESCENARIO |->
     [n \in NameIds |->
        {i \in 1..Len(CONTEXTO_ESCENARIO[c]) : Ocurre(CONTEXTO_ESCENARIO[c][i].k, Texto[n])}]]

\* The context multiplier as stated: of the first keyword of the selected table that
\* occurs in the name; 1 when none occurs, no context is given or the id is unknown.
CtxSegunRegla(n, contexto) ==
  IF contexto = None THEN One
  ELSE IF contexto[1] \notin DOMAIN CONTEXTO_ESCENARIO THEN One
  ELSE LET hits == PalabrasPresentes[contexto[1]][n]
       IN  IF hits = {} THEN One
           ELSE Tenths(CONTEXTO_ESCENARIO[contexto[1]][CHOOSE i \in hits : \A j \in hits : i <= j].v)

RawSegunRegla(i) ==
  RMul(RMul(arg.scores[i],
            Tenths(MULTIPLICADORES_URGENCIA[arg.nivel_riesgo]
                     [TipoPorNombre[arg.strategy_names[i]]])),
       CtxSegunRegla(arg.strategy_names[i], arg.contexto_escenario))

\* C15: the context multiplier applied to a strategy is that of the first keyword, in
\* the definition order of the selected context table, occurring case-insensitively
\* in the full strategy name, and 1.0 when no keyword occurs, no context id is given
\* or the id is not a key of the table: the returned scores are base score x severity
\* multiplier x that multiplier, divided by the largest of them.
C15_PrimerPalabraClave ==
  LlamadaConNivelConocido =>
    LET n == Len(arg.scores)
    IN  /\ Len(ret) = n
        /\ \A i \in 1..n :
             (\A j \in 1..n : RLe(RawSegunRegla(j), RawSegunRegla(i))) =>
                IF RLt(Zero, RawSegunRegla(i))
                THEN \A j \in 1..n : ret[j] = RDiv(RawSegunRegla(j), RawSegunRegla(i))
                ELSE \A j \in 1..n : ret[j] = RawSegunRegla(j)

\* A call with two strategies has returned in which one name holds two keywords of
\* the selected table with different multipliers, the first of them in another case
\* than written in the table, and the two adjusted scores differ.
C15_Witness ==
  /\ LlamadaConNivelConocido
  /\ Len(arg.strategy_names) = 2
  /\ arg.contexto_escenario # None
  /\ arg.contexto_escenario[1] \in DOMAIN CONTEXTO_ESCENARIO
  /\ \E i \in 1..2 :
       LET T == CONTEXTO_ESCENARIO[arg.contexto_escenario[1]]
           name == Texto[arg.strategy_names[i]]
           hits == PalabrasPresentes[arg.contexto_escenario[1]][arg.strategy_names[i]]
       IN  \E a, b \in hits :
              /\ a < b
              /\ \A j \in hits : a <= j
              /\ T[a].v # T[b].v
              /\ ~Contains(name, T[a].k)
  /\ ret[1] # ret[2]

----------------------------------------------------------------------------
(* Properties of the severity table (checked under SpecContexto) *)

NivelesEnOrden == <<"bajo_riesgo", "riesgo_moderado", "alto_riesgo", "emergencia">>

\* C16: as severity rises through bajo_riesgo, riesgo_moderado, alto_riesgo,
\* emergencia the multiplier of "inmediata" strictly increases and that of
\* "preventiva" strictly decreases; every level defines a positive multiplier for
\* each of the five tags.
C16_TablaDeSeveridad ==
  pc = "returned_urgencia" =>
    /\ DOMAIN MULTIPLICADORES_URGENCIA = {NivelesEnOrden[k] : k \in 1..4}
    /\ \A k \in 1..4 :
         arg.nivel_riesgo = NivelesEnOrden[k] =>
           LET bajo == MULTIPLICADORES_URGENCIA[NivelesEnOrden[k]]
           IN  /\ DOMAIN bajo = TiposDeRespuesta
               /\ \A t \in TiposDeRespuesta : RLt(Zero, MultNivel(bajo, t))
               /\ k < 4 =>
                    LET alto == MULTIPLICADORES_URGENCIA[NivelesEnOrden[k + 1]]
                    IN  /\ RLt(MultNivel(bajo, "inmediata"), MultNivel(alto, "inmediata"))
                        /\ RLt(MultNivel(alto, "preventiva"), MultNivel(bajo, "preventiva"))

\* The table at work: a call at "emergencia" without context has returned for an
\* "inmediata" and a "preventiva" strategy of equal base score, the first on top.
C16_Witness ==
  /\ pc = "returned_urgencia"
  /\ arg.nivel_riesgo = "emergencia"
  /\ arg.contexto_escenario = None
  /\ Len(arg.strategy_names) = 2
  /\ TipoPorNombre[arg.strategy_names[1]] = "inmediata"
  /\ TipoPorNombre[arg.strategy_names[2]] = "preventiva"
  /\ ret[1] = One
  /\ RLt(ret[2], ret[1])

----------------------------------------------------------------------------
(* Properties of check_condition (checked under SpecCondicion) *)

\* C17: for a numeric value and one of the four operators check_condition returns
\* true exactly when the value is below the threshold for "<", below or equal for
\* "<=", above for ">", above or equal for ">="; at value = threshold it is true for
\* ">=" and "<=" and false for ">" and "<".
C17_RegionDeAlarma ==
  (pc = "returned_condition" /\ arg.value # None /\ arg.op \in SupportedOps) =>
    LET below == arg.value[1] < arg.threshold
        equal == arg.value[1] = arg.threshold
    IN  /\ ~ret.raised
        /\ arg.op = "<" => (ret.ret <=> below)
        /\ arg.op = "<=" => (ret.ret <=> (below \/ equal))
        /\ arg.op = ">" => (ret.ret <=> (~below /\ ~equal))
        /\ arg.op = ">=" => (ret.ret <=> ~below)
        /\ equal => (ret.ret <=> arg.op \in {"<=", ">="})

\* A call at the boundary with ">=" has returned true.
C17_Witness ==
  /\ pc = "returned_condition"
  /\ arg.value = Some(arg.threshold)
  /\ arg.op = ">="
  /\ ret = Returned(TRUE)

----------------------------------------------------------------------------
(* Unsupported operators in the threshold table (checked under SpecTabla) *)

\* Some indicator linked to a strategy has an unsupported operator in the table.
OperadorNoSoportadoVinculado ==
  \E i \in 1..Len(strategies_config) :
    \E j \in 1..Len(strategies_config[i].rules) :
      LET ind == strategies_config[i].rules[j].indicator
      IN  /\ ind \in DOMAIN indicator_thresholds
          /\ indicator_thresholds[ind].op \notin SupportedOps

----------------------------------------------------------------------------
(* Missing readings and lookup misses (checked under SpecFaltantes) *)

\* Two names match exactly or by the partial rules (common 30-character prefix,
\* containment in either direction), white space at the ends aside.
Coincide(a, b) ==
  LET x == Strip(a)
      y == Strip(b)
  IN  \/ a = b
      \/ Prefix(x, 30) = Prefix(y, 30)
      \/ Contains(x, y)
      \/ Contains(y, x)

\* The strategies that no key of the context map b matches, "_default" aside.
AusentesDelContexto ==
  [b \in ContextTableIds |->
     {n \in NameIds :
        \A i \in 1..Len(ContextTable(b)) :
           \/ ContextTable(b)[i].k = DEFAULT_KEY
           \/ ~Coincide(Texto[n], ContextTable(b)[i].k)}]

\* The "_default" profile of a context map, {} when it has none.
PerfilDefault ==
  [b \in ContextTableIds |->
     LET d == {i \in 1..Len(ContextTable(b)) : ContextTable(b)[i].k = DEFAULT_KEY}
     IN  IF d = {} THEN <<>> ELSE ContextTable(b)[CHOOSE i \in d : TRUE].v]

\* The strategy matches no key of the strategy factor table.
AusenteDeFactores(est, factors_od) ==
  \A i \in 1..Len(factors_od) : ~Coincide(Texto[est], Texto[factors_od[i].k])

\* The factor score of a strategy with the given factors under a context profile.
PuntajeConPerfil(factors, perfil, general) ==
  SumaSobre(FactorNameSet,
            [f \in FactorNameSet |->
               RMul(Rat(ValorDe(factors, f), 1),
                    Tenths(IF f \in DOMAIN general THEN general[f] ELSE ValorDe(perfil, f)))])

\* Per scenario, the factor score of its factor profile under the "_default"
\* profile of the module's context map and the module's general values.
PuntajeDefaultPorEscenario ==
  [e \in DOMAIN ESCENARIOS |->
     PuntajeConPerfil(ESCENARIOS[e].factores_estrategia, PerfilDefault["modulo"],
                      FACTOR_VALUES_GENERAL)]

\* A linked indicator of strategy i has no current reading.
LecturaFaltante(i, c) ==
  /\ \E j \in 1..Len(strategies_config[i].rules) :
        strategies_config[i].rules[j].indicator = indicators[c]
  /\ indicators[c] \notin DOMAIN indicator_values

\* C19: with readings missing and strategies absent from the factor table and the
\* context map, both matrices are built without error and have a value for every
\* strategy; a missing reading contributes 0 to compliance, a strategy absent from
\* the context map is scored with the "_default" profile and a strategy absent
\* from the factor table with no factors.
C19_FaltantesSinError ==
  /\ pc # "error"
  /\ pc \in {"matrix", "mcda", "evaluated", "ajustado", "ranked", "done"} =>
       /\ Len(indicator_matrix) = Len(strategies_config)
       /\ \A i \in 1..Len(strategies_config) :
            /\ Len(indicator_matrix[i]) = Len(indicators)
            /\ \A c \in 1..Len(indicators) :
                 LecturaFaltante(i, c) => indicator_matrix[i][c] = Zero
  /\ pc \in {"mcda", "evaluated", "ajustado", "ranked", "done"} =>
       /\ Len(mcda_matrix) = Len(strategies_config)
       /\ Len(factor_scores_raw) = Len(strategies_config)
       /\ \A i \in 1..Len(strategies_config) :
            /\ Len(mcda_matrix[i]) = 2
            /\ strategies_config[i].name \in AusentesDelContexto["modulo"] =>
                 factor_scores_raw[i] = PuntajeDefaultPorEscenario[escenario_id]
  /\ pc = "returned_mcda" =>
       /\ Len(ret.mcda_matrix) = Len(arg.strategy_names)
       /\ Len(ret.factor_scores) = Len(arg.strategy_names)
       /\ \A i \in 1..Len(arg.strategy_names) :
            LET est == arg.strategy_names[i]
            IN  /\ Len(ret.mcda_matrix[i]) = 2
                /\ AusenteDeFactores(est, arg.strategy_factors) =>
                     ret.factor_scores[i] = Zero
                /\ \A b \in ContextTableIds :
                     (arg.factor_values_by_strategy = ContextTable(b)
                        /\ est \in AusentesDelContexto[b]) =>
                       ret.factor_scores[i] =
                         PuntajeConPerfil(FactorsFor(est, arg.strategy_factors),
                                          PerfilDefault[b], arg.factor_values_general)

\* A run has built both matrices with a linked indicator lacking its reading and a
\* strategy that no key of the context map matches, scored above zero through the
\* "_default" profile.
C19_Witness ==
  /\ pc = "mcda"
  /\ \E i \in 1..Len(strategies_config), c \in 1..Len(indicators) : LecturaFaltante(i, c)
  /\ \E i \in 1..Len(strategies_config) :
       /\ strategies_config[i].name \in AusentesDelContexto["modulo"]
       /\ factor_scores_raw[i] # Zero

----------------------------------------------------------------------------
(* Weight normalisation applied twice (checked under SpecPesos) *)

RAbs(x) == Rat(Abs(x.num), x.den)

\* Rounding allowance for a list of n weights: n times the spacing of the floats
\* at 1.0 (2^(1 - Precision)).
Tolerancia(n) == Rat(n, Pow2(Precision - 1))

TieneAlgunPeso(rules) == \E j \in 1..Len(rules) : rules[j].weight # Zero

\* The statement with an exact 1.0 and an exact second application: after the
\* call every strategy with a nonzero weight has weights summing to 1.0, a strategy
\* of total 0 is unchanged, and a second call changes nothing.
C20_Original ==
  /\ pc \in {"weights_once", "weights_twice"} =>
       \A i \in 1..Len(arg.strategies_config) :
          LET antes == arg.strategies_config[i].rules
              despues == ret.una[i].rules
          IN  /\ TieneAlgunPeso(antes) => FlSum(Weights(despues), arg.suma) = One
              /\ ~TieneAlgunPeso(antes) => despues = antes
  /\ pc = "weights_twice" => ret.dos = ret.una

\* C20: after normalize_strategy_weights every strategy with a nonzero weight has
\* weights summing to 1.0 within the rounding allowance of its n weights, as the
\* program sums them and exactly; a strategy of total 0 is left unchanged; a second
\* application leaves names, indicators and zero-total strategies as they are,
\* moves each weight by no more than the allowance of n + 1 weights, and changes
\* nothing where the weights already sum to exactly 1.0.
C20_PesosNormalizados ==
  /\ pc \in {"weights_once", "weights_twice"} =>
       /\ Len(ret.una) = Len(arg.strategies_config)
       /\ \A i \in 1..Len(arg.strategies_config) :
            LET antes == arg.strategies_config[i].rules
                despues == ret.una[i].rules
                n == Len(antes)
            IN  /\ ret.una[i].name = arg.strategies_config[i].name
                /\ Len(despues) = n
                /\ \A j \in 1..n : despues[j].indicator = antes[j].indicator
                /\ TieneAlgunPeso(antes) =>
                     /\ RLe(RAbs(RSub(FlSum(Weights(despues), arg.suma), One)), Tolerancia(n))
                     /\ RLe(RAbs(RSub(RSum(Weights(despues)), One)), Tolerancia(n))
                /\ ~TieneAlgunPeso(antes) => despues = antes
  /\ pc = "weights_twice" =>
       /\ Len(ret.dos) = Len(ret.una)
       /\ \A i \in 1..Len(ret.una) :
            LET una == ret.una[i].rules
                dos == ret.dos[i].rules
                n == Len(una)
            IN  /\ ret.dos[i].name = ret.una[i].name
                /\ Len(dos) = n
                /\ \A j \in 1..n :
                     /\ dos[j].indicator = una[j].indicator
                     /\ RLe(RAbs(RSub(dos[j].weight, una[j].weight)), Tolerancia(n + 1))
                /\ ~TieneAlgunPeso(una) => dos = una
                /\ FlSum(Weights(una), arg.suma) = One => dos = una

\* Two calls have returned for a strategy whose normalized weights the program
\* sums to less than 1.0 and which the second call has changed, next to a strategy
\* of total 0.
C20_Witness ==
  /\ pc = "weights_twice"
  /\ TieneAlgunPeso(arg.strategies_config[1].rules)
  /\ FlSum(Weights(ret.una[1].rules), arg.suma) # One
  /\ ret.dos[1] # ret.una[1]
  /\ Len(arg.strategies_config[2].rules) = 1
  /\ ~TieneAlgunPeso(arg.strategies_config[2].rules)

----------------------------------------------------------------------------
(* Threshold parsing (checked under SpecParse) *)

\* The text the patterns see, for a call on a non-empty text.
TextoVisto == ReplaceUnicode(Strip(arg.umbral_str.texto))

\* The positions of the text where an operator of the given shape is followed,
\* white space aside, by a number: "<=" / ">=" (compuesto) or "<" / ">" (simple).
PosicionesCompuesto(t) ==
  {i \in 1..Len(t) :
     /\ t[i] \in {60, 62}
     /\ \E j \in (i + 1)..Len(t), k \in (i + 2)..Len(t) :
          /\ j < k
          /\ t[j] = 61
          /\ IsDigit(t[k])
          /\ \A x \in ((i + 1)..(k - 1)) \ {j} : IsSpace(t[x])}

PosicionesSimple(t) ==
  {i \in 1..Len(t) :
     /\ t[i] \in {60, 62}
     /\ \E k \in (i + 1)..Len(t) :
          /\ IsDigit(t[k])
          /\ \A x \in (i + 1)..(k - 1) : IsSpace(t[x])}

Primero(S) == CHOOSE i \in S : \A j \in S : i <= j

\* The number that starts at the first digit at or after position i.
NumeroDesde(t, i) ==
  ToFloat(NumberAt(t, Primero({k \in i..Len(t) : IsDigit(t[k])}))[1])

\* C21: on a text, after the Unicode operators are normalized, a compound operator
\* followed by a number anywhere in the text decides the result (the leftmost such
\* place); failing that a simple operator followed by a number does; the examples
\* '< 70%', the text of U+2265 and 50, and 'Tipo II (U+2265 6 semanas)' give
\* ('<', 70.0), ('>=', 50.0) and ('>=', 6.0).
C21_PatronesEnOrden ==
  (pc = "returned_parse" /\ arg.umbral_str.tipo = "texto") =>
    /\ PosicionesCompuesto(TextoVisto) # {} =>
         LET i == Primero(PosicionesCompuesto(TextoVisto))
         IN  ret = <<Some(OpCharEq(TextoVisto[i])), Some(NumeroDesde(TextoVisto, i))>>
    /\ (PosicionesCompuesto(TextoVisto) = {} /\ PosicionesSimple(TextoVisto) # {}) =>
         LET i == Primero(PosicionesSimple(TextoVisto))
         IN  ret = <<Some(OpChar(TextoVisto[i])), Some(NumeroDesde(TextoVisto, i))>>
    /\ arg.umbral_str.texto = T_MENOR_70 => ret = <<Some("<"), Some(Rat(70, 1))>>
    /\ arg.umbral_str.texto = T_MAYOR_IGUAL_50 => ret = <<Some(">="), Some(Rat(50, 1))>>
    /\ arg.umbral_str.texto = T_TIPO_II => ret = <<Some(">="), Some(Rat(6, 1))>>

\* A call has returned on a text that holds a simple operator with its number
\* before a compound operator with another number; the compound one decided.
C21_Witness ==
  /\ pc = "returned_parse"
  /\ arg.umbral_str.tipo = "texto"
  /\ PosicionesCompuesto(TextoVisto) # {}
  /\ PosicionesSimple(TextoVisto) # {}
  /\ Primero(PosicionesSimple(TextoVisto)) < Primero(PosicionesCompuesto(TextoVisto))
  /\ ret[1] = Some(">=")

\* str(umbral_str) holds a digit.
CeldaConNumero ==
  \E i \in 1..Len(TextoDeCelda(arg.umbral_str)) : IsDigit(TextoDeCelda(arg.umbral_str)[i])

\* The cell is an empty text or a missing value.
CeldaVaciaOFaltante ==
  \/ arg.umbral_str.tipo = "faltante"
  \/ arg.umbral_str.tipo = "texto" /\ arg.umbral_str.texto = <<>>

----------------------------------------------------------------------------
(* The counts of critical and normal indicators (checked under Spec) *)

\* The indicators with a current reading and a parsed threshold.
IndicadoresEvaluables ==
  {ind \in IndicatorSet :
     /\ ind \in DOMAIN indicator_values
     /\ umbrales[ind] # <<None, None>>}

\* The reading of the indicator lies in the alarming region of its parsed threshold.
EnRegionDeAlarma(ind) ==
  LET v == indicator_values[ind]
      op == umbrales[ind][1][1]
      t == umbrales[ind][2][1]
  IN  \/ op = "<" /\ v < t
      \/ op = "<=" /\ v <= t
      \/ op = ">" /\ v > t
      \/ op = ">=" /\ v >= t

\* C23: in the result of a run the two counts add up to the number of indicators
\* with both a reading and a parsed threshold; such an indicator is critical when
\* its reading is in the alarming region and normal otherwise, and an indicator
\* without threshold or without reading is in neither count.
C23_ConteoDeIndicadores ==
  pc = "done" =>
    /\ indicadores_criticos =
         Some(Cardinality({ind \in IndicadoresEvaluables : EnRegionDeAlarma(ind)}))
    /\ indicadores_normales =
         Some(Cardinality({ind \in IndicadoresEvaluables : ~EnRegionDeAlarma(ind)}))
    /\ indicadores_criticos[1] + indicadores_normales[1] = Cardinality(IndicadoresEvaluables)

\* A run has returned with one indicator counted as critical while the other, read
\* but without a parsed threshold, is counted nowhere.
C23_Witness ==
  /\ pc = "done"
  /\ DOMAIN indicator_values = IndicatorSet
  /\ Cardinality(IndicadoresEvaluables) = 1
  /\ indicadores_criticos = Some(1)
  /\ indicadores_normales = Some(0)

----------------------------------------------------------------------------
(* Two runs of main() on the same inputs (checked under SpecMain) *)

\* C24: two runs given identical inputs produce identical scores and identical
\* rankings, also where main() falls back to generated indicator values or
\* generated strategy factors.
C24_MismasEntradasMismoResultado ==
  pc = "main_done" => (score = ret.score /\ rank_ = ret.rank_)

----------------------------------------------------------------------------
(* aplicar_multiplicador_urgencia with an unknown level (checked under SpecUrgencia) *)

LlamadaConNivelDesconocido ==
  pc = "returned_urgencia" /\ arg.nivel_riesgo \notin DOMAIN MULTIPLICADORES_URGENCIA

\* C30: called with a nivel_riesgo that is not a key of MULTIPLICADORES_URGENCIA,
\* aplicar_multiplicador_urgencia returns the input scores unchanged, with no
\* multiplier applied and no division by the maximum, whatever the context.
C30_NivelDesconocidoSinCambio ==
  LlamadaConNivelDesconocido => ret = arg.scores

\* A call with an unknown level and a context of the table, on strategies the
\* context would boost, whose scores have a positive maximum other than 1: they
\* come back as they went in.
C30_Witness ==
  /\ LlamadaConNivelDesconocido
  /\ MultContexto(arg.contexto_escenario) # <<>>
  /\ \E i \in 1..Len(arg.scores) :
       /\ MultCtxDe(arg.strategy_names[i], arg.contexto_escenario) # One
       /\ arg.scores[i] = Rat(1, 2)
  /\ \A i \in 1..Len(arg.scores) : arg.scores[i] # One
  /\ ret = arg.scores

----------------------------------------------------------------------------
(* The severity level of a call of ejecutar_escenario (checked under SpecLlamadas) *)

NivelAsignado == pc \in {"ajustado", "ranked", "done"}

NivelesPorAlerta == <<"bajo_riesgo", "riesgo_moderado", "alto_riesgo", "emergencia">>

\* C27: the nivel_riesgo handed to aplicar_multiplicador_urgencia is the scenario's
\* own id when that is one of the four levels; otherwise it is mapped from the
\* scenario's nivel_alerta (1 to 4, in the order bajo_riesgo, riesgo_moderado,
\* alto_riesgo, emergencia) and is riesgo_moderado when nivel_alerta is missing or
\* outside 1..4; it is always a key of MULTIPLICADORES_URGENCIA.
C27_NivelDeRiesgoElegido ==
  NivelAsignado =>
    /\ nivel_riesgo # None
    /\ nivel_riesgo[1] \in DOMAIN MULTIPLICADORES_URGENCIA
    /\ escenario_id \in NivelesValidos => nivel_riesgo[1] = escenario_id
    /\ escenario_id \notin NivelesValidos =>
         IF "nivel_alerta" \in DOMAIN escenario /\ escenario.nivel_alerta \in 1..4
         THEN nivel_riesgo[1] = NivelesPorAlerta[escenario.nivel_alerta]
         ELSE nivel_riesgo[1] = "riesgo_moderado"

\* A call for the scenario whose nivel_alerta is 7 has been given riesgo_moderado.
C27_Witness ==
  /\ pc = "done"
  /\ escenario_id \notin NivelesValidos
  /\ "nivel_alerta" \in DOMAIN escenario
  /\ escenario.nivel_alerta \notin 1..4
  /\ nivel_riesgo = Some("riesgo_moderado")

\* A call for the level id 'emergencia' whose nivel_alerta says 1 has been given
\* 'emergencia'.
C27_WitnessIdManda ==
  /\ pc = "done"
  /\ escenario_id = "emergencia"
  /\ escenario.nivel_alerta = 1
  /\ nivel_riesgo = Some("emergencia")

\* A call for a scenario that is no level and has nivel_alerta 4 has been given
\* 'emergencia', and one without nivel_alerta riesgo_moderado.
C27_WitnessPorAlerta ==
  /\ pc = "done"
  /\ escenario_id \notin NivelesValidos
  /\ \/ "nivel_alerta" \in DOMAIN escenario /\ escenario.nivel_alerta = 4
          /\ nivel_riesgo = Some("emergencia")
     \/ "nivel_alerta" \notin DOMAIN escenario /\ nivel_riesgo = Some("riesgo_moderado")

----------------------------------------------------------------------------
(* Successive calls of ejecutar_escenario (checked under SpecLlamadas) *)

\* What a call of ejecutar_escenario(id, ., path, EscenariosDeLlamada, contexto)
\* returns when it is the only call ever made.
ResultadoDeLlamadaUnica(id, path, contexto) ==
  LET esc == EscenariosDeLlamada[id]
      thresholds == LoadThresholds(ArchivosXlsx[path].umbrales)
      cfg == normalize_strategy_weights(EstrategiasDeArchivo(ArchivosXlsx[path]))
      factors == [i \in 1..Len(cfg) |-> [k |-> cfg[i].name, v |-> esc.factores_estrategia]]
      matrix == build_indicator_matrix(esc.indicadores, cfg, IndicatorNames, thresholds)
      raw == FactorScores(StrategyNames(cfg), factors, ContextValuesPorNombre,
                          FACTOR_VALUES_GENERAL)
      mcda == McdaMatrix(Compliance(matrix), raw)
      sc == WeightedSumScore(mcda, CriterionWeights)
      conteo == ContarIndicadores(IndicatorNames, esc.indicadores, thresholds)
  IN  [strategies_config |-> cfg,
       indicator_thresholds |-> thresholds,
       indicator_values |-> esc.indicadores,
       escenario |-> esc,
       mcda_matrix |-> mcda,
       score |-> sc,
       rank_ |-> DenseRank(sc),
       scores_ajustados |->
         aplicar_multiplicador_urgencia(sc, StrategyNames(cfg), NivelRiesgo(id, esc),
                                        contexto),
       indicadores_criticos |-> Some(conteo.ret.criticos),
       indicadores_normales |-> Some(conteo.ret.normales)]

\* The same fields of the result of the call that has just returned.
ResultadoDevuelto ==
  [strategies_config |-> strategies_config,
   indicator_thresholds |-> indicator_thresholds,
   indicator_values |-> indicator_values,
   escenario |-> escenario,
   mcda_matrix |-> mcda_matrix,
   score |-> score,
   rank_ |-> rank_,
   scores_ajustados |-> scores_ajustados,
   indicadores_criticos |-> indicadores_criticos,
   indicadores_normales |-> indicadores_normales]

\* C25: after any sequence of calls of ejecutar_escenario the scenario definitions
\* are what they were before the first call, and the result of each call (the
\* normalised strategy table, thresholds, matrix, scores, dense ranks, adjusted
\* scores and indicator counts) is the one the same call gives when it is the only
\* call ever made.  (The module-level tables are definitions of this model, which
\* no action can write.)
C25_LlamadasIndependientes ==
  /\ arg.escenarios_def = EscenariosDeLlamada
  /\ DefinicionesAlVolver = EscenariosDeLlamada
  /\ pc = "done" =>
       ResultadoDevuelto = ResultadoDeLlamadaUnica(escenario_id, arg.xlsx_path,
                                                   contexto_escenario)

\* A call has returned after an earlier call for another scenario, on another
\* workbook and in another context.
C25_Witness ==
  /\ pc = "done"
  /\ arg.llamadas = MaxLlamadas
  /\ \E a \in arg.anteriores :
       /\ a[1] \in DOMAIN EscenariosDeLlamada
       /\ a[1] # escenario_id
       /\ a[2] # arg.xlsx_path
       /\ a[3] # contexto_escenario
  /\ ResultadoDevuelto = ResultadoDeLlamadaUnica(escenario_id, arg.xlsx_path,
                                                 contexto_escenario)

----------------------------------------------------------------------------
(* The operators parse_threshold can return (checked under SpecParse) *)

ParseConResultado == pc = "returned_parse" /\ ret # <<None, None>>

\* C28: every result of parse_threshold other than (None, None) has an operator
\* among <, <=, >, >= and a threshold that is not negative; so a reading compared
\* through check_condition against a parsed threshold never raises.
C28_OperadorSoportado ==
  ParseConResultado =>
    /\ ret[1] # None /\ ret[2] # None
    /\ ret[1][1] \in SupportedOps
    /\ RLe(Zero, ret[2][1])
    /\ ret[2][1].den = 1 =>
         \A value \in {None} \cup {Some(v) : v \in Readings} :
           ~check_condition(value, ret[1][1], ret[2][1].num).raised

\* A text whose operator stands right after an opening parenthesis, '(>=5', has
\* been parsed to ('>=', 5).
C28_Witness ==
  /\ ParseConResultado
  /\ arg.umbral_str.tipo = "texto"
  /\ Len(arg.umbral_str.texto) >= 4
  /\ SearchParen(TextoDeCelda(arg.umbral_str)) # None
  /\ SearchParen(TextoDeCelda(arg.umbral_str))[1].op \notin SupportedOps
  /\ ret = <<Some(">="), Some(Rat(5, 1))>>

\* A negative numeric cell has been parsed to '>=' and its absolute value.
C28_WitnessNegativo ==
  /\ ParseConResultado
  /\ arg.umbral_str.tipo = "numero"
  /\ arg.umbral_str.valor < 0
  /\ ret = <<Some(">="), Some(Rat(-arg.umbral_str.valor, 1))>>

----------------------------------------------------------------------------
(* construir_escenarios_base: values against thresholds (checked under SpecBase) *)

\* check_condition on the value written for an indicator at a level.
ValorCumple(level_id, ind) ==
  check_condition(Some(ret.escenarios[level_id].indicadores[ind].v),
                  arg.thresholds[ind].op, arg.thresholds[ind].threshold).ret

\* C26: for every level and every indicator with a threshold, the value written
\* into the scenario satisfies check_condition(value, op, threshold) when the
\* indicator is among the level's selected critical indicators and does not
\* satisfy it when the indicator is not selected.
C26_ValoresCruzanSegunSeleccion ==
  pc = "returned_base" =>
    \A level_id \in DOMAIN ret.escenarios, ind \in DOMAIN arg.thresholds :
      ValorCumple(level_id, ind) <=>
        ind \in CriticosDeNivel(ret.indicadores_ordenados, level_id)

\* The case of the shipped data: 'Muertes probables', threshold >= 1, not selected
\* at bajo_riesgo, is written as 1 and satisfies its condition.
C26_MuertesProbables ==
  /\ pc = "returned_base"
  /\ "Muertes probables" \in DOMAIN arg.thresholds
  /\ arg.thresholds["Muertes probables"] = [op |-> ">=", threshold |-> Centesimas(1)]
  /\ "Muertes probables" \notin CriticosDeNivel(ret.indicadores_ordenados, "bajo_riesgo")
  /\ ret.escenarios["bajo_riesgo"].indicadores["Muertes probables"].v = Centesimas(1)
  /\ ValorCumple("bajo_riesgo", "Muertes probables")

----------------------------------------------------------------------------
(* generar_mapas_variantes: the scenario sets of the variants (checked under
   SpecVariantes) *)

\* The base set as construir_escenarios_base built it from ESCENARIOS.
BaseConstruida ==
  construir_escenarios_base(arg.thresholds, EscenariosGlobales, ret.indicadores_ordenados)

VarianteEnCurso == Variantes[ret.procesadas]

\* The variant overrides this indicator, or this factor, of this level.
SobrescribeIndicador(variante, level_id, ind) ==
  /\ level_id \in DOMAIN variante.indicator_overrides
  /\ ind \in DOMAIN variante.indicator_overrides[level_id]

SobrescribeFactor(variante, level_id, f) ==
  /\ level_id \in DOMAIN variante.factor_overrides
  /\ f \in DOMAIN variante.factor_overrides[level_id]

\* C29: after any number of variants the global ESCENARIOS and the base set built
\* by construir_escenarios_base are unchanged, and the scenario set of each variant
\* is the base set with that variant's own indicator and factor overrides applied:
\* every other entry is the base's, whatever an earlier variant has overridden.
C29_VariantesIndependientes ==
  /\ arg.ESCENARIOS = EscenariosGlobales
  /\ pc \in {"base", "variante"} => ret.escenarios_base = BaseConstruida
  /\ pc = "variante" =>
       /\ ret.escenarios =
            apply_factor_overrides(
              apply_indicator_overrides(BaseConstruida, VarianteEnCurso.indicator_overrides),
              VarianteEnCurso.factor_overrides)
       /\ \A level_id \in DOMAIN ret.escenarios :
            /\ \A ind \in DOMAIN ret.escenarios[level_id].indicadores :
                 ~SobrescribeIndicador(VarianteEnCurso, level_id, ind) =>
                   ret.escenarios[level_id].indicadores[ind]
                     = BaseConstruida[level_id].indicadores[ind]
            /\ \A f \in DOMAIN ret.escenarios[level_id].factores_estrategia :
                 ~SobrescribeFactor(VarianteEnCurso, level_id, f) =>
                   ret.escenarios[level_id].factores_estrategia[f]
                     = BaseConstruida[level_id].factores_estrategia[f]

\* The last variant has been processed after one that changed an indicator value
\* which the last one does not override; the base set differs from ESCENARIOS and
\* the last variant's set differs from the base in a factor.
C29_Witness ==
  /\ pc = "variante"
  /\ ret.procesadas = Len(Variantes)
  /\ BaseConstruida # EscenariosGlobales
  /\ \E level_id \in DOMAIN BaseConstruida :
       /\ SobrescribeIndicador(Variantes[2], level_id, "Tasa de incidencia semanal")
       /\ ~SobrescribeIndicador(VarianteEnCurso, level_id, "Tasa de incidencia semanal")
       /\ apply_indicator_overrides(BaseConstruida, Variantes[2].indicator_overrides)
            [level_id].indicadores["Tasa de incidencia semanal"]
            # BaseConstruida[level_id].indicadores["Tasa de incidencia semanal"]
       /\ ret.escenarios[level_id].indicadores["Tasa de incidencia semanal"]
            = BaseConstruida[level_id].indicadores["Tasa de incidencia semanal"]
  /\ ret.escenarios["emergencia"].factores_estrategia.costo_operativo
       # BaseConstruida["emergencia"].factores_estrategia.costo_operativo

====
